---- MODULE Spec2Model ----
(***************************************************************************)
(* Living-room basketball scoreboard.                                      *)
(*                                                                         *)
(*   gs   the state of the useGameState hook (src/src/useGameState.js)     *)
(*   db   the server's tables (sessions, games, events)                    *)
(*   now  the wall clock, in milliseconds                                  *)
(*   requests  the requests served that update or read rows already there  *)
(*   app  the refs of the GameSession component that its effects keep      *)
(*   tr   the refs of useGameTracking                                      *)
(*   net  the requests of useGameTracking that are in flight               *)
(*   recorded  the number of events handed to recordEvent so far           *)
(*   stint  history variable: whether the current point-mode stint has    *)
(*        earned the switch back to multiplier mode                       *)
(*   trail  history variable: the scoring state before each mutating      *)
(*        action of the current game, oldest first; under SpecFinal the   *)
(*        game in progress at expiry and the event of the final shot      *)
(*   lastOp, refused   history variables: the hook function called last,   *)
(*        and whether that call left the hook state as it was              *)
(*                                                                         *)
(* The hook's functions are operators from hook state to hook state; the   *)
(* actions call them the way the components do.                            *)
(***************************************************************************)
EXTENDS Integers, Sequences, FiniteSets, TLC

VARIABLES gs, lastOp, refused, db, now, requests, app, tr, net, recorded, calls,
          stint, trail

vars == <<gs, lastOp, refused, db, now, requests, app, tr, net, recorded, calls, stint, trail>>

(* ---------------------------------------------------------------- bounds *)

\* Gameplay actions are explored while the score stays within MaxScore.
MaxScore == 12

\* Makes in multiplier mode are explored while the multiplier stays within
\* MaxMultiplier.
MaxMultiplier == 3

\* Snapshot-pushing actions are explored while the undo history holds at
\* most MaxHistory snapshots.
MaxHistory == 8

\* The countdown is explored from MaxSessionTicks ticks before expiry.
MaxSessionTicks == 2

\* Rows the server specification lets the sessions table hold.
MaxSessions == 2

\* Rows the server specification lets the games table hold.
MaxGames == 2

\* Event rows the server specification accepts from clients (game_start
\* rows, which the server writes itself, are not counted).
MaxEvents == 2

\* Events the tracking specification lets the component hand to recordEvent.
MaxRecorded == 3

\* Fetches of event batches the tracking specification lets fail.
MaxFailures == 2

\* Readings the wall clock takes after the first one.
MaxTicks == 1

\* Requests the server specification serves that update or read rows already
\* there (PUT, GET, recalculate); the requests that insert rows are bounded
\* by the tables.
MaxRequests == 2

(* ------------------------------------------------------------- constants *)

INITIAL_MISSES == 3

FREEBIES_AFTER_TEN == 3

MULTIPLIER_SHOTS == 5

\* saveToHistory keeps the last HISTORY_KEEP snapshots and appends one.
HISTORY_KEEP == 19

\* The countdown starts at SESSION_DURATION.
SESSION_DURATION == MaxSessionTicks

Max(a, b) == IF a >= b THEN a ELSE b

(* --------------------------------------------------- useGameState: state *)

\* The hook's useState / useRef initial values.
InitialGameState ==
    [ sessionActive            |-> FALSE,
      timeRemaining            |-> SESSION_DURATION,
      sessionHighScore         |-> 0,
      paused                   |-> FALSE,
      sessionEndedByTimer      |-> FALSE,
      finalShotAvailable       |-> FALSE,
      finalShotUsed            |-> FALSE,
      finalShotTimer           |-> FALSE,
      gameActive               |-> FALSE,
      mode                     |-> "multiplier",
      score                    |-> 0,
      multiplier               |-> 1,
      multiplierShotsRemaining |-> 0,
      misses                   |-> INITIAL_MISSES,
      freebiesRemaining        |-> 0,
      canEnterMultiplierMode   |-> TRUE,
      lastTenThreshold         |-> 0,
      history                  |-> << >>,
      canUndo                  |-> FALSE ]

\* The snapshot saveToHistory takes and undo restores.
Snapshot(s) ==
    [ mode                     |-> s.mode,
      score                    |-> s.score,
      multiplier               |-> s.multiplier,
      multiplierShotsRemaining |-> s.multiplierShotsRemaining,
      misses                   |-> s.misses,
      freebiesRemaining        |-> s.freebiesRemaining,
      canEnterMultiplierMode   |-> s.canEnterMultiplierMode,
      lastTenThreshold         |-> s.lastTenThreshold,
      sessionHighScore         |-> s.sessionHighScore ]

\* prev.slice(-n): the last n elements of a sequence.
SliceLast(seq, n) ==
    IF Len(seq) <= n THEN seq ELSE SubSeq(seq, Len(seq) - n + 1, Len(seq))

saveToHistory(s) ==
    [s EXCEPT !.history = Append(SliceLast(s.history, HISTORY_KEEP), Snapshot(s)),
              !.canUndo = TRUE]

undo(s) ==
    IF Len(s.history) = 0 \/ ~s.gameActive
    THEN s
    ELSE LET prevState == s.history[Len(s.history)]
         IN [s EXCEPT !.history = SubSeq(s.history, 1, Len(s.history) - 1),
                      !.mode = prevState.mode,
                      !.score = prevState.score,
                      !.multiplier = prevState.multiplier,
                      !.multiplierShotsRemaining = prevState.multiplierShotsRemaining,
                      !.misses = prevState.misses,
                      !.freebiesRemaining = prevState.freebiesRemaining,
                      !.canEnterMultiplierMode = prevState.canEnterMultiplierMode,
                      !.lastTenThreshold = prevState.lastTenThreshold,
                      !.sessionHighScore = prevState.sessionHighScore,
                      !.canUndo = (Len(s.history) > 1)]

clearHistory(s) ==
    [s EXCEPT !.history = << >>, !.canUndo = FALSE]

\* hydrateFromServer(serverData) on a hook mounted by a page load
\* (hydratedRef is false).
hydrateFromServer(s, serverData) ==
    LET gameState == serverData.gameState
        session == [s EXCEPT !.sessionActive = TRUE,
                             !.timeRemaining = serverData.timeRemaining,
                             !.sessionHighScore = serverData.highScore,
                             !.paused = serverData.isPaused,
                             !.history = << >>,
                             !.canUndo = FALSE]
    IN IF serverData.hasGame /\ serverData.gameIsActive
       THEN [session EXCEPT
               !.gameActive = TRUE,
               !.mode = gameState.mode,
               !.score = gameState.score,
               !.multiplier = gameState.multiplier,
               !.multiplierShotsRemaining = gameState.multiplierShotsRemaining,
               !.misses = gameState.misses,
               !.freebiesRemaining = gameState.freebiesRemaining,
               !.lastTenThreshold = (gameState.score \div 10) * 10,
               !.canEnterMultiplierMode = (gameState.freebiesRemaining > 0)]
       ELSE IF serverData.hasGame
       THEN [session EXCEPT
               !.gameActive = FALSE,
               !.score = gameState.finalScore,
               !.mode = gameState.mode,
               !.multiplier = gameState.multiplier,
               !.misses = gameState.misses]
       ELSE [session EXCEPT !.gameActive = FALSE, !.score = 0]

startNewGame(s) ==
    [clearHistory(s) EXCEPT
        !.gameActive = TRUE,
        !.mode = "multiplier",
        !.score = 0,
        !.multiplier = 1,
        !.multiplierShotsRemaining = 0,
        !.misses = INITIAL_MISSES,
        !.freebiesRemaining = 0,
        !.canEnterMultiplierMode = TRUE,
        !.lastTenThreshold = 0]

startSession(s) ==
    startNewGame([s EXCEPT
        !.sessionActive = TRUE,
        !.timeRemaining = SESSION_DURATION,
        !.sessionHighScore = 0,
        !.sessionEndedByTimer = FALSE,
        !.finalShotAvailable = FALSE,
        !.finalShotUsed = FALSE,
        !.finalShotTimer = FALSE])

\* endGame without setGameActive(false).
endGame_keepsActive(s) ==
    [s EXCEPT !.sessionHighScore = Max(s.sessionHighScore, s.score)]

endGame(s) ==
    [s EXCEPT !.sessionHighScore = Max(s.sessionHighScore, s.score),
              !.gameActive = FALSE]

endSession(s) ==
    [s EXCEPT !.sessionHighScore = Max(s.sessionHighScore, s.score),
              !.sessionActive = FALSE,
              !.gameActive = FALSE,
              !.paused = FALSE]

togglePause(s) ==
    IF ~s.sessionActive THEN s ELSE [s EXCEPT !.paused = ~s.paused]

\* The expiry branch opening the final-shot window without ending the
\* session.
timerExpiry_keepsSession(s) ==
    IF s.timeRemaining = 0 /\ s.sessionActive
    THEN [s EXCEPT
            !.sessionEndedByTimer = TRUE,
            !.finalShotAvailable = TRUE,
            !.finalShotUsed = FALSE,
            !.finalShotTimer = TRUE]
    ELSE s

\* The timer effect's second branch: the countdown is at 0 in an active
\* session.
timerExpiry(s) ==
    IF s.timeRemaining = 0 /\ s.sessionActive
    THEN [endSession(s) EXCEPT
            !.sessionEndedByTimer = TRUE,
            !.finalShotAvailable = TRUE,
            !.finalShotUsed = FALSE,
            !.finalShotTimer = TRUE]
    ELSE s

\* One firing of the interval callback, then the timer effect of the render
\* that follows.
timerTick(s) ==
    timerExpiry([s EXCEPT !.timeRemaining = IF s.timeRemaining <= 1 THEN 0
                                            ELSE s.timeRemaining - 1])

\* The timeout leaving finalShotAvailable as it is.
finalShotTimeout_keepsAvailable(s) ==
    [s EXCEPT !.finalShotTimer = FALSE]

\* The 60 second timeout set at expiry.
finalShotTimeout(s) ==
    [s EXCEPT !.finalShotAvailable = FALSE, !.finalShotTimer = FALSE]

\* The tens of the new score alone, the tens already passed not taken off.
calculateMissesGained_fromNewScore(prevScore, newScore) ==
    newScore \div 10

calculateMissesGained(prevScore, newScore) ==
    (newScore \div 10) - (prevScore \div 10)

makeShot(s) ==
    IF ~s.gameActive THEN s
    ELSE LET h == saveToHistory(s) IN
      IF s.mode = "multiplier"
      THEN [h EXCEPT !.multiplier = s.multiplier + 1]
      ELSE
        LET prevScore    == s.score
            pointsToAdd  == IF s.multiplierShotsRemaining > 0 THEN s.multiplier ELSE 1
            newScore     == s.score + pointsToAdd
            newMultiplierShots == s.multiplierShotsRemaining - 1
            missesGained == calculateMissesGained(prevScore, newScore)
        IN [h EXCEPT
              !.score = newScore,
              !.multiplierShotsRemaining =
                  IF s.multiplierShotsRemaining > 0 THEN newMultiplierShots
                  ELSE s.multiplierShotsRemaining,
              !.multiplier =
                  IF s.multiplierShotsRemaining > 0 /\ newMultiplierShots <= 0
                  THEN 1 ELSE s.multiplier,
              !.misses = IF missesGained > 0 THEN s.misses + missesGained ELSE s.misses,
              !.freebiesRemaining = IF missesGained > 0 THEN FREEBIES_AFTER_TEN ELSE 0,
              !.canEnterMultiplierMode = (missesGained > 0),
              !.lastTenThreshold =
                  IF missesGained > 0 THEN (newScore \div 10) * 10
                  ELSE s.lastTenThreshold,
              !.sessionHighScore = Max(s.sessionHighScore, newScore)]

\* missShot with a miss that a freebie absorbs leaving the multiplier shots
\* alone.
missShot_freebieKeepsShots(s) ==
    IF ~s.gameActive THEN s
    ELSE LET h == saveToHistory(s) IN
      IF s.mode = "multiplier"
      THEN LET newMisses == s.misses - 1
               m == [h EXCEPT !.misses = newMisses]
           IN IF newMisses <= 0 THEN endGame(m) ELSE m
      ELSE
        IF s.freebiesRemaining > 0
        THEN [h EXCEPT !.freebiesRemaining = s.freebiesRemaining - 1,
                       !.canEnterMultiplierMode = FALSE]
        ELSE LET newMultiplierShots == s.multiplierShotsRemaining - 1
                 newMisses == s.misses - 1
                 m == IF s.multiplierShotsRemaining > 0
                      THEN [h EXCEPT
                              !.multiplierShotsRemaining = newMultiplierShots,
                              !.multiplier = IF newMultiplierShots <= 0 THEN 1
                                             ELSE s.multiplier]
                      ELSE h
                 n == [m EXCEPT !.misses = newMisses]
             IN IF newMisses <= 0 THEN endGame(n) ELSE n

\* missShot ending the game one miss late: when misses falls below 0.
missShot_endsBelowZero(s) ==
    IF ~s.gameActive THEN s
    ELSE LET h == saveToHistory(s) IN
      IF s.mode = "multiplier"
      THEN LET newMisses == s.misses - 1
               m == [h EXCEPT !.misses = newMisses]
           IN IF newMisses < 0 THEN endGame(m) ELSE m
      ELSE
        LET newMultiplierShots == s.multiplierShotsRemaining - 1
            m == IF s.multiplierShotsRemaining > 0
                 THEN [h EXCEPT
                         !.multiplierShotsRemaining = newMultiplierShots,
                         !.multiplier = IF newMultiplierShots <= 0 THEN 1
                                        ELSE s.multiplier]
                 ELSE h
        IN IF s.freebiesRemaining > 0
           THEN [m EXCEPT !.freebiesRemaining = s.freebiesRemaining - 1,
                          !.canEnterMultiplierMode = FALSE]
           ELSE LET newMisses == s.misses - 1
                    n == [m EXCEPT !.misses = newMisses]
                IN IF newMisses < 0 THEN endGame(n) ELSE n

missShot(s) ==
    IF ~s.gameActive THEN s
    ELSE LET h == saveToHistory(s) IN
      IF s.mode = "multiplier"
      THEN LET newMisses == s.misses - 1
               m == [h EXCEPT !.misses = newMisses]
           IN IF newMisses <= 0 THEN endGame(m) ELSE m
      ELSE
        LET newMultiplierShots == s.multiplierShotsRemaining - 1
            m == IF s.multiplierShotsRemaining > 0
                 THEN [h EXCEPT
                         !.multiplierShotsRemaining = newMultiplierShots,
                         !.multiplier = IF newMultiplierShots <= 0 THEN 1
                                        ELSE s.multiplier]
                 ELSE h
        IN IF s.freebiesRemaining > 0
           THEN [m EXCEPT !.freebiesRemaining = s.freebiesRemaining - 1,
                          !.canEnterMultiplierMode = FALSE]
           ELSE LET newMisses == s.misses - 1
                    n == [m EXCEPT !.misses = newMisses]
                IN IF newMisses <= 0 THEN endGame(n) ELSE n

\* enterPointMode leaving canEnterMultiplierMode as it was.
enterPointMode_keepsEntry(s) ==
    IF s.mode # "multiplier" THEN s
    ELSE [saveToHistory(s) EXCEPT
            !.mode = "point",
            !.multiplierShotsRemaining =
                IF s.multiplier > 1 THEN MULTIPLIER_SHOTS
                ELSE s.multiplierShotsRemaining,
            !.freebiesRemaining = FREEBIES_AFTER_TEN]

\* enterPointMode granting multiplier shots from multiplier 3 only.
enterPointMode_shotsAboveTwo(s) ==
    IF s.mode # "multiplier" THEN s
    ELSE [saveToHistory(s) EXCEPT
            !.mode = "point",
            !.multiplierShotsRemaining =
                IF s.multiplier > 2 THEN MULTIPLIER_SHOTS
                ELSE s.multiplierShotsRemaining,
            !.canEnterMultiplierMode = FALSE,
            !.freebiesRemaining = FREEBIES_AFTER_TEN]

enterPointMode(s) ==
    IF s.mode # "multiplier" THEN s
    ELSE [saveToHistory(s) EXCEPT
            !.mode = "point",
            !.multiplierShotsRemaining =
                IF s.multiplier > 1 THEN MULTIPLIER_SHOTS
                ELSE s.multiplierShotsRemaining,
            !.canEnterMultiplierMode = FALSE,
            !.freebiesRemaining = FREEBIES_AFTER_TEN]

\* enterMultiplierMode without the test of canEnterMultiplierMode.
enterMultiplierMode_anyTime(s) ==
    IF s.mode # "point" THEN s
    ELSE [saveToHistory(s) EXCEPT
            !.mode = "multiplier",
            !.multiplier = 1,
            !.freebiesRemaining = 0]

enterMultiplierMode(s) ==
    IF ~s.canEnterMultiplierMode \/ s.mode # "point" THEN s
    ELSE [saveToHistory(s) EXCEPT
            !.mode = "multiplier",
            !.multiplier = 1,
            !.freebiesRemaining = 0]

continueInPointMode(s) ==
    IF ~s.canEnterMultiplierMode \/ s.mode # "point" THEN s
    ELSE [s EXCEPT !.canEnterMultiplierMode = FALSE]

\* addFinalMake leaving the session high score as it is.
addFinalMake_keepsHighScore(s) ==
    IF ~s.finalShotAvailable \/ s.finalShotUsed THEN s
    ELSE LET pointsToAdd == IF s.multiplierShotsRemaining > 0 THEN s.multiplier ELSE 1
         IN [s EXCEPT !.score = s.score + pointsToAdd,
                      !.finalShotUsed = TRUE,
                      !.finalShotAvailable = FALSE,
                      !.finalShotTimer = FALSE]

addFinalMake(s) ==
    IF ~s.finalShotAvailable \/ s.finalShotUsed THEN s
    ELSE LET pointsToAdd == IF s.multiplierShotsRemaining > 0 THEN s.multiplier ELSE 1
             newScore    == s.score + pointsToAdd
         IN [s EXCEPT !.score = newScore,
                      !.sessionHighScore = Max(s.sessionHighScore, newScore),
                      !.finalShotUsed = TRUE,
                      !.finalShotAvailable = FALSE,
                      !.finalShotTimer = FALSE]

addFinalMiss(s) ==
    IF ~s.finalShotAvailable \/ s.finalShotUsed THEN s
    ELSE [s EXCEPT !.finalShotUsed = TRUE,
                   !.finalShotAvailable = FALSE,
                   !.finalShotTimer = FALSE]

(* ------------------------------------------------------ server: tables *)

\* SQL NULL in an id or timestamp column.
NULL == 0 - 1

\* SQL NULL in a text column.
NoText == "null"

\* A new row of the sessions table (the column defaults), started at t.
NewSession(durationSeconds, t) ==
    [ totalGames      |-> 0,
      highScore       |-> 0,
      totalPoints     |-> 0,
      durationSeconds |-> durationSeconds,
      isPaused        |-> FALSE,
      pausedAt        |-> NULL,
      totalPausedMs   |-> 0,
      currentGameId   |-> NULL,
      startedAt       |-> t,
      endedAt         |-> NULL ]

\* A new row of the games table (the column defaults), started at t.
NewGame(sessionId, t) ==
    [ sessionId                       |-> sessionId,
      currentScore                    |-> 0,
      currentMultiplier               |-> 1,
      currentMultiplierShotsRemaining |-> 0,
      currentMisses                   |-> 3,
      currentFreebiesRemaining        |-> 0,
      currentMode                     |-> "multiplier",
      isActive                        |-> TRUE,
      finalScore                      |-> 0,
      highMultiplier                  |-> 1,
      totalMakes                      |-> 0,
      totalMisses                     |-> 0,
      durationSeconds                 |-> NULL,
      endReason                       |-> NoText,
      startedAt                       |-> t,
      endedAt                         |-> NULL ]

\* A row of the events table from a request's event e, inserted at t
\* (occurredAt is the column default, the time of the insert). eid is no
\* column: it names the call of recordEvent the event comes from, NULL for
\* an event from elsewhere.
EventRow(e, t) ==
    [ gameId                   |-> e.gameId,
      eventType                |-> e.eventType,
      score                    |-> e.score,
      multiplier               |-> e.multiplier,
      multiplierShotsRemaining |-> e.multiplierShotsRemaining,
      missesRemaining          |-> e.missesRemaining,
      freebiesRemaining        |-> e.freebiesRemaining,
      mode                     |-> e.mode,
      pointsEarned             |-> e.pointsEarned,
      previousMode             |-> e.previousMode,
      newMode                  |-> e.newMode,
      usedFreebie              |-> e.usedFreebie,
      isTipIn                  |-> e.isTipIn,
      sequenceNumber           |-> e.sequenceNumber,
      occurredAt               |-> t,
      eid                      |-> e.eid ]

\* The event a request carries: the snapshot and the type-specific fields,
\* the ones left out at their column defaults.
EventBody(gameId, eventType, snap, sequenceNumber) ==
    [ gameId                   |-> gameId,
      eventType                |-> eventType,
      score                    |-> snap.score,
      multiplier               |-> snap.multiplier,
      multiplierShotsRemaining |-> snap.multiplierShotsRemaining,
      missesRemaining          |-> snap.missesRemaining,
      freebiesRemaining        |-> snap.freebiesRemaining,
      mode                     |-> snap.mode,
      pointsEarned             |-> 0,
      previousMode             |-> NoText,
      newMode                  |-> NoText,
      usedFreebie              |-> FALSE,
      isTipIn                  |-> FALSE,
      sequenceNumber           |-> sequenceNumber,
      eid                      |-> NULL ]

\* The empty database.
EmptyDb == [ sessions |-> << >>, games |-> << >>, events |-> << >> ]

SessionIds(d) == 1..Len(d.sessions)

GameIds(d) == 1..Len(d.games)

(* ---------------------------------------------------- server: /api/session *)

\* POST /api/session.
sessionPost(d, durationSeconds, t) ==
    [d EXCEPT !.sessions = Append(d.sessions, NewSession(durationSeconds, t))]

\* Elapsed play time of session row s at time t.
ElapsedMs(s, t) ==
    IF s.isPaused /\ s.pausedAt # NULL
    THEN s.pausedAt - s.startedAt - s.totalPausedMs
    ELSE t - s.startedAt - s.totalPausedMs

\* The expiry check reading the wall clock for a paused session too.
TimerExpired_wallClock(s, t) ==
    t - s.startedAt - s.totalPausedMs >= s.durationSeconds * 1000

\* Whether the countdown of session row s has run out at time t.
TimerExpired(s, t) ==
    ElapsedMs(s, t) >= s.durationSeconds * 1000

\* PUT /api/session with the pause fields (isPaused, pausedAt, totalPausedMs).
sessionPutPause(d, sessionId, isPaused, pausedAt, totalPausedMs) ==
    IF sessionId \notin SessionIds(d) THEN d
    ELSE [d EXCEPT !.sessions[sessionId].isPaused = isPaused,
                   !.sessions[sessionId].pausedAt = pausedAt,
                   !.sessions[sessionId].totalPausedMs = totalPausedMs]

\* GET /api/session?id=: a session found expired is ended at the time of the
\* request.
sessionGet(d, sessionId, t) ==
    IF sessionId \notin SessionIds(d) THEN d
    ELSE LET session == d.sessions[sessionId]
         IN IF session.endedAt = NULL /\ TimerExpired(session, t)
            THEN [d EXCEPT !.sessions[sessionId].endedAt = t]
            ELSE d

(* ------------------------------------------------------- server: /api/game *)

\* POST /api/game: the game row, the session's currentGameId, the game_start
\* event with sequenceNumber 0.
gamePost(d, sessionId, t) ==
    LET gameId == Len(d.games) + 1
        start  == EventBody(gameId, "game_start",
                    [ score |-> 0, multiplier |-> 1, multiplierShotsRemaining |-> 0,
                      missesRemaining |-> 3, freebiesRemaining |-> 0,
                      mode |-> "multiplier" ], 0)
    IN [d EXCEPT !.games = Append(d.games, NewGame(sessionId, t)),
                 !.sessions = [i \in DOMAIN d.sessions |->
                                 IF i = sessionId
                                 THEN [d.sessions[i] EXCEPT !.currentGameId = gameId]
                                 ELSE d.sessions[i]],
                 !.events = Append(d.events, EventRow(start, t))]

\* POST /api/game whose insert of the game_start event rejects: the game row
\* and the currentGameId of the session are written, each by its own
\* statement, the handler answers 500.
gamePostWithoutStart(d, sessionId, t) ==
    LET gameId == Len(d.games) + 1
    IN [d EXCEPT !.games = Append(d.games, NewGame(sessionId, t)),
                 !.sessions = [i \in DOMAIN d.sessions |->
                                 IF i = sessionId
                                 THEN [d.sessions[i] EXCEPT !.currentGameId = gameId]
                                 ELSE d.sessions[i]]]

\* PUT /api/game with the current-state fields (the debounced sync).
gamePutState(d, gameId, st) ==
    IF gameId \notin GameIds(d) THEN d
    ELSE [d EXCEPT !.games[gameId].currentScore = st.score,
                   !.games[gameId].currentMultiplier = st.multiplier,
                   !.games[gameId].currentMultiplierShotsRemaining =
                       st.multiplierShotsRemaining,
                   !.games[gameId].currentMisses = st.misses,
                   !.games[gameId].currentFreebiesRemaining = st.freebiesRemaining,
                   !.games[gameId].currentMode = st.mode]

\* PUT /api/game with the final stats (the end of a game); ended is the
\* request's "ended" flag.
gamePutFinal(d, gameId, fin, ended, t) ==
    IF gameId \notin GameIds(d) THEN d
    ELSE LET g == [d.games[gameId] EXCEPT
                      !.finalScore = fin.finalScore,
                      !.highMultiplier = fin.highMultiplier,
                      !.totalMakes = fin.totalMakes,
                      !.totalMisses = fin.totalMisses,
                      !.durationSeconds = fin.durationSeconds,
                      !.endReason = fin.endReason]
             s == d.sessions[g.sessionId]
         IN IF ~ended
            THEN [d EXCEPT !.games[gameId] = g]
            ELSE [d EXCEPT
                    !.games[gameId] = [g EXCEPT !.endedAt = t, !.isActive = FALSE],
                    !.sessions[g.sessionId] =
                        [s EXCEPT !.totalGames = s.totalGames + 1,
                                  !.totalPoints = s.totalPoints + fin.finalScore,
                                  !.highScore = Max(s.highScore, fin.finalScore),
                                  !.currentGameId = NULL]]

(* ------------------------------------------------------ server: /api/event *)

\* PUT /api/event: every event of the batch is inserted.
eventPut(d, eventBatch, t) ==
    [d EXCEPT !.events = d.events \o [i \in 1..Len(eventBatch) |->
                                        EventRow(eventBatch[i], t)]]

(* -------------------------------------------------- server: /api/recalculate *)

\* The rows of a game as the query returns them: ordered by sequenceNumber,
\* rows with the same sequenceNumber in the order the table holds them (the
\* order of a query is the same every time it runs on an unchanged table).
OrderBySequenceNumber(rows) ==
    LET RECURSIVE Sort(_)
        Sort(s) ==
            IF s = << >> THEN << >>
            ELSE LET sorted == Sort(SubSeq(s, 1, Len(s) - 1))
                     e      == s[Len(s)]
                     k      == Cardinality({i \in 1..Len(sorted) :
                                   sorted[i].sequenceNumber <= e.sequenceNumber})
                 IN SubSeq(sorted, 1, k) \o <<e>> \o SubSeq(sorted, k + 1, Len(sorted))
    IN Sort(rows)

\* The rows of a game in the order in which they were stored, which is the
\* order of their occurredAt.
GameEvents_inStoredOrder(d, gameId) ==
    SelectSeq(d.events, LAMBDA e : e.gameId = gameId)

GameEvents(d, gameId) ==
    OrderBySequenceNumber(SelectSeq(d.events, LAMBDA e : e.gameId = gameId))

\* Math.max over a non-empty sequence of multipliers.
MaxMultiplierOf(evs) ==
    CHOOSE m \in {evs[i].multiplier : i \in 1..Len(evs)} :
        \A i \in 1..Len(evs) : evs[i].multiplier <= m

CountType(evs, type) ==
    Len(SelectSeq(evs, LAMBDA e : e.eventType = type))

\* The occurredAt of the game_end event found first, or NULL.
GameEndAt(evs) ==
    LET ends == SelectSeq(evs, LAMBDA e : e.eventType = "game_end")
    IN IF ends = << >> THEN NULL ELSE ends[1].occurredAt

\* outOfMisses without the test of usedFreebie.
OutOfMisses_anyMiss(lastEvent) ==
    /\ lastEvent.missesRemaining <= 0
    /\ lastEvent.eventType = "miss"

\* Whether the last event of a game is the miss that took the last life.
OutOfMisses(lastEvent) ==
    /\ lastEvent.missesRemaining <= 0
    /\ lastEvent.eventType = "miss"
    /\ ~lastEvent.usedFreebie

\* IsGameEnded deciding from the cached currentMisses of the game row as well.
IsGameEnded_fromCachedMisses(game, gameEvents) ==
    \/ GameEndAt(gameEvents) # NULL
    \/ game.endReason # NoText
    \/ game.currentMisses <= 0

\* IsGameEnded deciding from the events alone, a cached endReason ignored.
IsGameEnded_fromEventsOnly(game, gameEvents) ==
    \/ GameEndAt(gameEvents) # NULL
    \/ OutOfMisses(gameEvents[Len(gameEvents)])

\* Whether a game whose events are gameEvents has ended.
IsGameEnded(game, gameEvents) ==
    LET lastEvent       == gameEvents[Len(gameEvents)]
        hasGameEndEvent == GameEndAt(gameEvents) # NULL
        hasEndReason    == game.endReason # NoText
        outOfMisses     == OutOfMisses(lastEvent)
    IN hasGameEndEvent \/ hasEndReason \/ outOfMisses

\* The endedAt the handler computes for a game: NULL while it has not ended.
GameEndedAt(game, gameEvents) ==
    IF ~IsGameEnded(game, gameEvents) THEN NULL
    ELSE IF GameEndAt(gameEvents) # NULL THEN GameEndAt(gameEvents)
    ELSE gameEvents[Len(gameEvents)].occurredAt

\* The per-game update of the recalculate handler, applied to the game row;
\* gameEvents is not empty.
GameUpdate(game, gameEvents) ==
    LET lastEvent       == gameEvents[Len(gameEvents)]
        hasGameEndEvent == GameEndAt(gameEvents) # NULL
        outOfMisses     == OutOfMisses(lastEvent)
        isGameEnded     == IsGameEnded(game, gameEvents)
        endedAt         == GameEndedAt(game, gameEvents)
        durationSeconds == IF endedAt # NULL
                           THEN (endedAt - game.startedAt) \div 1000
                           ELSE NULL
        endReason       == IF isGameEnded /\ game.endReason = NoText
                           THEN (IF outOfMisses THEN "out_of_misses"
                                 ELSE IF hasGameEndEvent THEN "session_ended"
                                 ELSE game.endReason)
                           ELSE game.endReason
    IN [game EXCEPT
          !.finalScore = lastEvent.score,
          !.highMultiplier = MaxMultiplierOf(gameEvents),
          !.totalMakes = CountType(gameEvents, "make"),
          !.totalMisses = CountType(gameEvents, "miss"),
          !.isActive = ~isGameEnded,
          !.currentScore = lastEvent.score,
          !.currentMultiplier = lastEvent.multiplier,
          !.currentMultiplierShotsRemaining = lastEvent.multiplierShotsRemaining,
          !.currentMisses = lastEvent.missesRemaining,
          !.currentFreebiesRemaining = lastEvent.freebiesRemaining,
          !.currentMode = lastEvent.mode,
          !.endedAt = IF endedAt # NULL THEN endedAt ELSE game.endedAt,
          !.durationSeconds = IF durationSeconds # NULL THEN durationSeconds
                              ELSE game.durationSeconds,
          !.endReason = endReason]

\* The ids of the games of a session in the order of the query (by
\* startedAt; game ids are given in the order of creation).
SessionGames(d, sessionId) ==
    SelectSeq([g \in 1..Len(d.games) |-> g],
              LAMBDA g : d.games[g].sessionId = sessionId)

\* The loop over the games of the session: the update of every game that has
\* events (with the endedAt computed for it) and the session aggregates.
ProcessGames(d, sessionGames) ==
    LET RECURSIVE Loop(_)
        Loop(n) ==
            IF n = 0
            THEN [ gameUpdates |-> << >>, sessionTotalPoints |-> 0,
                   sessionHighScore |-> 0, sessionTotalGames |-> 0 ]
            ELSE LET acc        == Loop(n - 1)
                     gameId     == sessionGames[n]
                     gameEvents == GameEvents(d, gameId)
                     updates    == GameUpdate(d.games[gameId], gameEvents)
                 IN IF Len(gameEvents) = 0 THEN acc
                    ELSE [ gameUpdates |->
                             Append(acc.gameUpdates,
                                    [ gameId  |-> gameId,
                                      updates |-> updates,
                                      endedAt |-> GameEndedAt(d.games[gameId],
                                                              gameEvents) ]),
                           sessionTotalPoints |->
                             acc.sessionTotalPoints + updates.finalScore,
                           sessionHighScore |->
                             Max(acc.sessionHighScore, updates.finalScore),
                           sessionTotalGames |-> acc.sessionTotalGames + 1 ]
    IN Loop(Len(sessionGames))

\* The endedAt the recalculate handler gives a session whose countdown has
\* run out and whose endedAt is not set.
SessionEndedAt(session, gameUpdates) ==
    LET durationMs  == session.durationSeconds * 1000
        lastEndedAt == IF gameUpdates = << >> THEN NULL
                       ELSE gameUpdates[Len(gameUpdates)].endedAt
    IN IF session.isPaused /\ session.pausedAt # NULL
       THEN (IF lastEndedAt # NULL THEN lastEndedAt ELSE session.pausedAt)
       ELSE session.startedAt + durationMs + session.totalPausedMs

\* The currentGameId the recalculate handler gives a session: the last game
\* still active, else the last game.
SessionCurrentGameId(session, sessionGames, gameUpdates) ==
    LET active == SelectSeq(gameUpdates, LAMBDA gu : gu.updates.isActive)
    IN IF active # << >> THEN active[Len(active)].gameId
       ELSE IF sessionGames # << >> THEN sessionGames[Len(sessionGames)]
       ELSE session.currentGameId

\* SessionUpdate counting every game of the session, the games without
\* events included.
SessionUpdate_countsEveryGame(session, sessionGames, acc, t) ==
    [session EXCEPT
       !.totalGames = Len(sessionGames),
       !.totalPoints = acc.sessionTotalPoints,
       !.highScore = acc.sessionHighScore,
       !.endedAt = IF session.endedAt = NULL /\ TimerExpired(session, t)
                   THEN SessionEndedAt(session, acc.gameUpdates)
                   ELSE session.endedAt,
       !.currentGameId =
           SessionCurrentGameId(session, sessionGames, acc.gameUpdates)]

\* SessionUpdate adding the points found to the totalPoints already cached.
SessionUpdate_accumulates(session, sessionGames, acc, t) ==
    [session EXCEPT
       !.totalGames = acc.sessionTotalGames,
       !.totalPoints = session.totalPoints + acc.sessionTotalPoints,
       !.highScore = acc.sessionHighScore,
       !.endedAt = IF session.endedAt = NULL /\ TimerExpired(session, t)
                   THEN SessionEndedAt(session, acc.gameUpdates)
                   ELSE session.endedAt,
       !.currentGameId =
           SessionCurrentGameId(session, sessionGames, acc.gameUpdates)]

\* The session update of the recalculate handler, given the result acc of
\* the loop over the games and the one reading t of the clock.
SessionUpdate(session, sessionGames, acc, t) ==
    [session EXCEPT
       !.totalGames = acc.sessionTotalGames,
       !.totalPoints = acc.sessionTotalPoints,
       !.highScore = acc.sessionHighScore,
       !.endedAt = IF session.endedAt = NULL /\ TimerExpired(session, t)
                   THEN SessionEndedAt(session, acc.gameUpdates)
                   ELSE session.endedAt,
       !.currentGameId =
           SessionCurrentGameId(session, sessionGames, acc.gameUpdates)]

\* The game rows after the updates of gameUpdates are applied.
ApplyGameUpdates(games, gameUpdates) ==
    LET RECURSIVE Apply(_)
        Apply(n) ==
            IF n = 0 THEN games
            ELSE [Apply(n - 1) EXCEPT ![gameUpdates[n].gameId] = gameUpdates[n].updates]
    IN Apply(Len(gameUpdates))

\* The status that answers a miss of the session row with "not found"
\* whether or not the body names a session.
recalculateStatus_noValidation(d, sessionId) ==
    IF sessionId \notin SessionIds(d) THEN 404 ELSE 200

\* The HTTP status of the answer to POST /api/recalculate with sessionId in
\* its body; NULL stands for a body without sessionId.
recalculateStatus(d, sessionId) ==
    IF sessionId = NULL THEN 400
    ELSE IF sessionId \notin SessionIds(d) THEN 404
    ELSE 200

\* POST /api/recalculate at time t: everything is computed from the rows
\* read, then the games are written, then the session.
recalculate(d, sessionId, t) ==
    IF sessionId \notin SessionIds(d) THEN d
    ELSE LET sessionGames == SessionGames(d, sessionId)
             acc          == ProcessGames(d, sessionGames)
         IN [d EXCEPT
               !.games = ApplyGameUpdates(d.games, acc.gameUpdates),
               !.sessions[sessionId] =
                   SessionUpdate(d.sessions[sessionId], sessionGames, acc, t)]

(* ------------------------------- server: recalculate calls side by side *)

\* The requests to POST /api/recalculate that run side by side.
Callers == {"a", "b"}

\* A call of the handler that has not read anything yet.
NewCall ==
    [ pc |-> "session", session |-> NewSession(0, 0), sessionGames |-> << >>,
      acc |-> ProcessGames(EmptyDb, << >>), next |-> 1, t |-> NULL ]

\* No call of the handler runs.
NoCalls == [ running |-> FALSE, sessionId |-> NULL, start |-> EmptyDb,
             of |-> [c \in Callers |-> NewCall] ]

\* db.update(games).set(updates) of one entry gu of gameUpdates on the row
\* current: endedAt, durationSeconds and endReason are in the update only
\* when the handler computed one.
WriteGame(current, gu) ==
    [gu.updates EXCEPT
       !.endedAt = IF gu.endedAt # NULL THEN gu.endedAt ELSE current.endedAt,
       !.durationSeconds = IF gu.endedAt # NULL THEN gu.updates.durationSeconds
                           ELSE current.durationSeconds,
       !.endReason = IF gu.updates.endReason # NoText THEN gu.updates.endReason
                     ELSE current.endReason]

\* The session write adding the points found to the totalPoints of the row.
WriteSession_adds(current, call, t) ==
    LET u == SessionUpdate(call.session, call.sessionGames, call.acc, t)
    IN [current EXCEPT
          !.totalGames = u.totalGames,
          !.totalPoints = current.totalPoints + u.totalPoints,
          !.highScore = u.highScore,
          !.endedAt = IF call.session.endedAt = NULL /\ TimerExpired(call.session, t)
                      THEN u.endedAt ELSE current.endedAt,
          !.currentGameId = IF call.sessionGames # << >> THEN u.currentGameId
                            ELSE current.currentGameId]

\* db.update(sessions).set(sessionUpdate) on the row current, the update
\* computed at clock reading t from what the call read: endedAt and
\* currentGameId are in the update only when the handler computed one.
WriteSession(current, call, t) ==
    LET u == SessionUpdate(call.session, call.sessionGames, call.acc, t)
    IN [current EXCEPT
          !.totalGames = u.totalGames,
          !.totalPoints = u.totalPoints,
          !.highScore = u.highScore,
          !.endedAt = IF call.session.endedAt = NULL /\ TimerExpired(call.session, t)
                      THEN u.endedAt ELSE current.endedAt,
          !.currentGameId = IF call.sessionGames # << >> THEN u.currentGameId
                            ELSE current.currentGameId]

(* ------------------------------------------------ History: useGameTracking *)

\* Events a flush of recordEvent waits for.
BATCH_SIZE == 5

\* The refs of useGameTracking at mount. gamePromise is "none" (no createGame
\* yet), "pending" or "settled"; thenWaiting says that recordEvent has chained
\* its flush of the early events to the pending promise.
InitialTracking ==
    [ sessionId      |-> NULL,
      gameId         |-> NULL,
      gamePromise    |-> "none",
      thenWaiting    |-> FALSE,
      sequenceNumber |-> 0,
      pendingEvents  |-> << >>,
      earlyEvents    |-> << >>,
      stats          |-> [ makes |-> 0, misses |-> 0, highMultiplier |-> 1 ] ]

\* Nothing in flight: no POST /api/session, no PUT /api/session of
\* endSessionTracking, no POST /api/game, no batch of recordEvent, no call
\* of endGameTracking; failures counts the fetches that have failed.
InitialNet ==
    [ failures    |-> 0,
      sessionPost |-> FALSE,
      sessionEnd  |-> FALSE,
      creating    |-> FALSE,
      batches     |-> {},
      ends        |-> << >> ]

\* The client as the operators below thread it: the refs of the component,
\* the refs of the tracking hook, the requests in flight, the events recorded.
Client(a, k, n, r) == [ app |-> a, tr |-> k, net |-> n, recorded |-> r ]

\* The eventData recordMake, recordMiss and recordModeChange build from state.
EventData(eventType, state, pointsEarned, previousMode, newMode, usedFreebie) ==
    [ gameId                   |-> NULL,
      eventType                |-> eventType,
      score                    |-> state.score,
      multiplier               |-> state.multiplier,
      multiplierShotsRemaining |-> state.multiplierShotsRemaining,
      missesRemaining          |-> state.misses,
      freebiesRemaining        |-> state.freebiesRemaining,
      mode                     |-> IF eventType = "mode_change" THEN newMode
                                   ELSE state.mode,
      pointsEarned             |-> pointsEarned,
      previousMode             |-> previousMode,
      newMode                  |-> newMode,
      usedFreebie              |-> usedFreebie,
      isTipIn                  |-> FALSE,
      sequenceNumber           |-> NULL,
      eid                      |-> NULL ]

\* The stats recordEvent keeps.
TrackStats(stats, eventData) ==
    IF eventData.eventType = "make"
    THEN [stats EXCEPT !.makes = @ + 1,
                       !.highMultiplier = Max(@, eventData.multiplier)]
    ELSE IF eventData.eventType = "miss"
    THEN [stats EXCEPT !.misses = @ + 1]
    ELSE stats

\* The events of queue given the game id and the next sequence numbers from n.
Numbered(queue, gameId, n) ==
    [i \in 1..Len(queue) |->
        [queue[i] EXCEPT !.gameId = gameId, !.sequenceNumber = n + i - 1]]

\* recordEvent.
recordEvent(c, data) ==
    LET eventData == [data EXCEPT !.eid = c.recorded + 1]
        k         == [c.tr EXCEPT !.stats = TrackStats(@, eventData)]
        event     == [eventData EXCEPT !.gameId = k.gameId,
                                       !.sequenceNumber = k.sequenceNumber]
        queued    == Append(k.pendingEvents, event)
        important == eventData.eventType \in {"game_start", "game_end", "mode_change"}
    IN IF k.gameId = NULL
       THEN [c EXCEPT
               !.recorded = @ + 1,
               !.tr = [k EXCEPT !.earlyEvents = Append(@, eventData),
                                !.thenWaiting = @ \/ k.gamePromise = "pending"]]
       ELSE IF Len(queued) >= BATCH_SIZE \/ important
       THEN [c EXCEPT
               !.recorded = @ + 1,
               !.tr = [k EXCEPT !.sequenceNumber = @ + 1, !.pendingEvents = << >>],
               !.net = [@ EXCEPT !.batches = @ \cup {queued}]]
       ELSE [c EXCEPT
               !.recorded = @ + 1,
               !.tr = [k EXCEPT !.sequenceNumber = @ + 1, !.pendingEvents = queued]]

\* The flush of the early events that recordEvent chains to the game promise,
\* run when the promise settles.
flushEarlyEvents(c) ==
    IF c.tr.thenWaiting /\ c.tr.gameId # NULL /\ Len(c.tr.earlyEvents) > 0
    THEN LET queuedEvents == Numbered(c.tr.earlyEvents, c.tr.gameId,
                                      c.tr.sequenceNumber)
         IN [c EXCEPT
               !.tr = [@ EXCEPT !.sequenceNumber = @ + Len(queuedEvents),
                                !.earlyEvents = << >>,
                                !.pendingEvents = << >>,
                                !.thenWaiting = FALSE],
               !.net = [@ EXCEPT !.batches =
                           @ \cup {c.tr.pendingEvents \o queuedEvents}]]
    ELSE [c EXCEPT !.tr = [@ EXCEPT !.thenWaiting = FALSE]]

\* The body a call of endGameTracking sends with its PUT /api/game.
GamePutBody(k, call) ==
    [ gameId          |-> k.gameId,
      finalScore      |-> call.finalScore,
      highMultiplier  |-> k.stats.highMultiplier,
      totalMakes      |-> k.stats.makes,
      totalMisses     |-> k.stats.misses,
      durationSeconds |-> 0,
      endReason       |-> call.endReason ]

\* endGameTracking from the point where the game id is known or the wait for
\* the game promise is over: the flush of the pending events goes out, or,
\* the queue being empty, the PUT of the game.
endGameSend(c, call) ==
    IF c.tr.gameId = NULL THEN c
    ELSE IF Len(c.tr.pendingEvents) > 0
    THEN [c EXCEPT !.net = [@ EXCEPT !.ends =
            Append(@, [call EXCEPT !.pos = "flush", !.batch = c.tr.pendingEvents])]]
    ELSE [c EXCEPT !.net = [@ EXCEPT !.ends =
            Append(@, [call EXCEPT !.pos = "gamePut",
                                   !.body = GamePutBody(c.tr, call)])]]

\* endGameTracking(finalScore, endReason) up to its first await.
endGameTracking(c, finalScore, endReason) ==
    LET call == [ pos |-> "awaitGame", finalScore |-> finalScore,
                  endReason |-> endReason, batch |-> << >>,
                  body |-> GamePutBody(InitialTracking,
                              [finalScore |-> 0, endReason |-> NoText]) ]
    IN IF c.tr.gameId = NULL /\ c.tr.gamePromise = "pending"
       THEN [c EXCEPT !.net = [@ EXCEPT !.ends = Append(@, call)]]
       ELSE endGameSend(c, call)

\* The calls of endGameTracking that wait for the game promise go on, in the
\* order in which they were made.
resumeEnds(c) ==
    LET RECURSIVE Resume(_, _)
        Resume(cc, waiting) ==
            IF waiting = << >> THEN cc
            ELSE Resume(endGameSend(cc, Head(waiting)), Tail(waiting))
        waits == SelectSeq(c.net.ends, LAMBDA e : e.pos = "awaitGame")
        rest  == SelectSeq(c.net.ends, LAMBDA e : e.pos # "awaitGame")
    IN Resume([c EXCEPT !.net = [@ EXCEPT !.ends = rest]], waits)

\* createGame up to its fetch.
createGame(c) ==
    [c EXCEPT !.tr = [@ EXCEPT !.gamePromise = "pending", !.thenWaiting = FALSE],
              !.net = [@ EXCEPT !.creating = TRUE]]

\* createGame from the response of POST /api/game with the id of the game,
\* then what waits for the game promise: the flush of the early events, the
\* calls of endGameTracking.
gameCreated(c, gameId) ==
    resumeEnds(flushEarlyEvents(
        [c EXCEPT
           !.tr = [@ EXCEPT !.gameId = gameId,
                            !.sequenceNumber = 0,
                            !.pendingEvents = << >>,
                            !.stats = InitialTracking.stats,
                            !.gamePromise = "settled"],
           !.net = [@ EXCEPT !.creating = FALSE]]))

(* --------------------------------------------- App: the tracking effects *)

\* The refs of GameSession at mount.
InitialApp ==
    [ prevSessionActive |-> FALSE,
      prevGameActive    |-> FALSE,
      prevScore         |-> 0,
      prevMultiplier    |-> InitialGameState.multiplier,
      prevMode          |-> InitialGameState.mode,
      prevMisses        |-> InitialGameState.misses,
      prevFreebies      |-> InitialGameState.freebiesRemaining,
      trackingMiss      |-> FALSE ]

\* Whether the render with state s differs from the one with state s0 in one
\* of the dependencies deps of an effect.
DepsChanged(s0, s, deps) == \E f \in deps : s0[f] # s[f]

\* The state dependencies of the four effects that record events.
TrackingDeps ==
    { "gameActive", "score", "multiplier", "multiplierShotsRemaining", "misses",
      "freebiesRemaining", "mode" }

\* Track session lifecycle.
sessionEffect(c, s0, s) ==
    IF ~DepsChanged(s0, s, {"sessionActive", "sessionHighScore"}) THEN c
    ELSE LET wasActive == c.app.prevSessionActive
             c1 == [c EXCEPT !.app = [@ EXCEPT !.prevSessionActive = s.sessionActive]]
         IN IF s.sessionActive /\ ~wasActive
            THEN [c1 EXCEPT !.net = [@ EXCEPT !.sessionPost = TRUE]]
            ELSE IF ~s.sessionActive /\ wasActive /\ c1.tr.sessionId # NULL
            THEN [c1 EXCEPT !.net = [@ EXCEPT !.sessionEnd = TRUE]]
            ELSE c1

\* Track game lifecycle.
gameEffect(c, s0, s) ==
    IF ~DepsChanged(s0, s, {"gameActive", "score", "misses", "timeRemaining"}) THEN c
    ELSE LET wasActive == c.app.prevGameActive
             c1 == [c EXCEPT !.app = [@ EXCEPT !.prevGameActive = s.gameActive]]
             endReason == IF s.misses <= 0 THEN "out_of_misses"
                          ELSE IF s.timeRemaining <= 0 THEN "session_ended"
                          ELSE "manual_end"
         IN IF s.gameActive /\ ~wasActive
            THEN createGame([c1 EXCEPT !.app = [@ EXCEPT !.prevScore = 0]])
            ELSE IF ~s.gameActive /\ wasActive
            THEN endGameTracking(c1, s.score, endReason)
            ELSE c1

\* Track score changes (makes in point mode).
scoreEffect(c, s0, s) ==
    IF ~DepsChanged(s0, s, TrackingDeps) \/ ~s.gameActive THEN c
    ELSE LET c1 == IF s.score > c.app.prevScore
                   THEN recordEvent(c, EventData("make", s, s.score - c.app.prevScore,
                                                 NoText, NoText, FALSE))
                   ELSE c
         IN [c1 EXCEPT !.app = [@ EXCEPT !.prevScore = s.score]]

\* Track multiplier changes (makes in multiplier mode).
multiplierEffect(c, s0, s) ==
    IF ~DepsChanged(s0, s, TrackingDeps) \/ ~s.gameActive THEN c
    ELSE LET c1 == IF s.multiplier > c.app.prevMultiplier /\ s.mode = "multiplier"
                   THEN recordEvent(c, EventData("make", s, 0, NoText, NoText, FALSE))
                   ELSE c
         IN [c1 EXCEPT !.app = [@ EXCEPT !.prevMultiplier = s.multiplier]]

\* Track mode changes.
modeEffect(c, s0, s) ==
    IF ~DepsChanged(s0, s, TrackingDeps) \/ ~s.gameActive THEN c
    ELSE LET c1 == IF s.mode # c.app.prevMode
                   THEN recordEvent(c, EventData("mode_change", s, 0,
                                                 c.app.prevMode, s.mode, FALSE))
                   ELSE c
         IN [c1 EXCEPT !.app = [@ EXCEPT !.prevMode = s.mode]]

\* Track misses after they happen.
missEffect(c, s0, s) ==
    IF ~DepsChanged(s0, s, TrackingDeps) THEN c
    ELSE IF ~s.gameActive \/ ~c.app.trackingMiss
    THEN [c EXCEPT !.app = [@ EXCEPT !.prevMisses = s.misses,
                                     !.prevFreebies = s.freebiesRemaining]]
    ELSE LET usedFreebie == /\ c.app.prevFreebies > s.freebiesRemaining
                            /\ c.app.prevMisses = s.misses
             c1 == recordEvent([c EXCEPT !.app = [@ EXCEPT !.trackingMiss = FALSE]],
                               EventData("miss", s, 0, NoText, NoText, usedFreebie))
         IN [c1 EXCEPT !.app = [@ EXCEPT !.prevMisses = s.misses,
                                         !.prevFreebies = s.freebiesRemaining]]

\* The effects of GameSession that track, in the order of their declaration,
\* after the render that takes the hook state from s0 to s.
RunEffects(c, s0, s) ==
    missEffect(modeEffect(multiplierEffect(scoreEffect(gameEffect(
        sessionEffect(c, s0, s), s0, s), s0, s), s0, s), s0, s), s0, s)

(* ------------------------------------------------ the hook under its API *)

\* Whether the exploration follows hook state t.
InBounds(t) ==
    /\ t.score <= MaxScore
    /\ t.multiplier <= MaxMultiplier
    /\ Len(t.history) <= MaxHistory

\* A call of hook function op that takes the hook from gs to t.
Call(op, t) ==
    /\ InBounds(t)
    /\ gs' = t
    /\ lastOp' = op
    /\ refused' = (t = gs)
    /\ UNCHANGED <<db, now, requests, app, tr, net, recorded, calls, stint, trail>>

\* No point-mode stint yet: no entry earned, none saved with a snapshot, none
\* synced with the game row.
NoStint == [ earned |-> FALSE, saved |-> << >>, synced |-> FALSE ]

Init ==
    /\ gs = InitialGameState
    /\ lastOp = "mount"
    /\ refused = FALSE
    /\ db = EmptyDb
    /\ now = 0
    /\ requests = 0
    /\ app = InitialApp
    /\ tr = InitialTracking
    /\ net = InitialNet
    /\ recorded = 0
    /\ calls = NoCalls
    /\ stint = NoStint
    /\ trail = << >>

\* The start button of the pre-session screen, the start_session command.
StartSession ==
    /\ ~gs.sessionActive
    /\ Call("startSession", startSession(gs))

\* The New Game button of the game-over screen, the start_game command.
StartGame ==
    /\ gs.sessionActive /\ ~gs.gameActive
    /\ Call("startNewGame", startNewGame(gs))

\* The End Session button, the end_session command.
EndSession ==
    /\ gs.sessionActive
    /\ Call("endSession", endSession(gs))

TogglePause ==
    /\ gs.sessionActive
    /\ Call("togglePause", togglePause(gs))

\* The interval runs in an active, unpaused session with time left.
TimerTick ==
    /\ gs.sessionActive /\ gs.timeRemaining > 0 /\ ~gs.paused
    /\ Call("timerTick", timerTick(gs))

FinalShotTimeout ==
    /\ gs.finalShotTimer
    /\ Call("finalShotTimeout", finalShotTimeout(gs))

\* The gameplay functions are called in any state: their own guards decide.
MakeShot ==
    /\ Call("makeShot", makeShot(gs))

MissShot ==
    /\ Call("missShot", missShot(gs))

EnterPointMode ==
    /\ Call("enterPointMode", enterPointMode(gs))

EnterMultiplierMode ==
    /\ Call("enterMultiplierMode", enterMultiplierMode(gs))

ContinueInPointMode ==
    /\ Call("continueInPointMode", continueInPointMode(gs))

Undo ==
    /\ Call("undo", undo(gs))

AddFinalMake ==
    /\ Call("addFinalMake", addFinalMake(gs))

AddFinalMiss ==
    /\ Call("addFinalMiss", addFinalMiss(gs))

Next ==
    \/ StartSession
    \/ StartGame
    \/ EndSession
    \/ TogglePause
    \/ TimerTick
    \/ FinalShotTimeout
    \/ MakeShot
    \/ MissShot
    \/ EnterPointMode
    \/ EnterMultiplierMode
    \/ ContinueInPointMode
    \/ Undo
    \/ AddFinalMake
    \/ AddFinalMiss

Spec == Init /\ [][Next]_vars

\* The interval of the timer effect fires once it has been armed for a
\* second: a tick that stays possible is eventually taken.
SpecCountdown == Spec /\ WF_vars(TimerTick)

(* ------------------------------------------- the server under its HTTP API *)

\* One step of the wall clock, in milliseconds.
TickMs == 1000

\* The durationSeconds a client posts (the countdown scaled to one clock
\* step, as SESSION_DURATION is).
DurationSeconds == 1

\* Snapshots a request may carry.
MadeSnap ==
    [ score |-> 2, multiplier |-> 2, multiplierShotsRemaining |-> 4,
      missesRemaining |-> 3, freebiesRemaining |-> 0, mode |-> "point" ]

OutSnap ==
    [ score |-> 0, multiplier |-> 1, multiplierShotsRemaining |-> 0,
      missesRemaining |-> 0, freebiesRemaining |-> 0, mode |-> "multiplier" ]

\* Events a request may carry for game gameId: a make, the miss that uses
\* the last miss, a game_end, a miss that a freebie absorbed.
EventMenu(gameId) ==
    { EventBody(gameId, "make", MadeSnap, n) : n \in 1..MaxEvents }
      \cup { EventBody(gameId, "miss", OutSnap, n) : n \in 1..MaxEvents }
      \cup { EventBody(gameId, "game_end", MadeSnap, n) : n \in 1..MaxEvents }
      \cup { [EventBody(gameId, "miss", OutSnap, n) EXCEPT !.usedFreebie = TRUE] :
                n \in 1..MaxEvents }

\* Final stats a game PUT may carry.
FinalMenu ==
    { [ finalScore |-> 5, highMultiplier |-> 3, totalMakes |-> 4,
        totalMisses |-> 1, durationSeconds |-> 0, endReason |-> "manual_end" ] }

\* Client events stored so far.
ClientEvents(d) ==
    Cardinality({i \in 1..Len(d.events) : d.events[i].eventType # "game_start"})

\* A request that inserts rows.
Insert(d) ==
    /\ db' = d
    /\ lastOp' = "request"
    /\ UNCHANGED <<gs, refused, now, requests, app, tr, net, recorded, calls, stint, trail>>

\* A request on rows already there.
Request(op, d) ==
    /\ requests < MaxRequests
    /\ requests' = requests + 1
    /\ db' = d
    /\ lastOp' = op
    /\ UNCHANGED <<gs, refused, now, app, tr, net, recorded, calls, stint, trail>>

SessionPost ==
    /\ Len(db.sessions) < MaxSessions
    /\ Insert(sessionPost(db, DurationSeconds, now))

\* The POST of the one session the specification SpecServer follows.
OnlySessionPost ==
    /\ Len(db.sessions) = 0
    /\ Insert(sessionPost(db, DurationSeconds, now))

SessionPutPause ==
    \E sessionId \in SessionIds(db) :
        LET s == db.sessions[sessionId]
        IN IF s.isPaused
           THEN Request("request", sessionPutPause(db, sessionId, FALSE, NULL,
                            s.totalPausedMs + (now - s.pausedAt)))
           ELSE Request("request", sessionPutPause(db, sessionId, TRUE, now, s.totalPausedMs))

SessionGet ==
    \E sessionId \in SessionIds(db) :
        Request("request", sessionGet(db, sessionId, now))

GamePost ==
    /\ Len(db.games) < MaxGames
    /\ \E sessionId \in SessionIds(db) :
          Insert(gamePost(db, sessionId, now))

GamePutState ==
    \E gameId \in GameIds(db) :
        Request("request", gamePutState(db, gameId,
                    [ score |-> 2, multiplier |-> 2, multiplierShotsRemaining |-> 0,
                      misses |-> 0, freebiesRemaining |-> 0, mode |-> "point" ]))

GamePutFinal ==
    \E gameId \in GameIds(db), fin \in FinalMenu, ended \in BOOLEAN :
        Request("request", gamePutFinal(db, gameId, fin, ended, now))

EventPut ==
    /\ ClientEvents(db) < MaxEvents
    /\ \E gameId \in GameIds(db) :
          \E e \in EventMenu(gameId) :
              Insert(eventPut(db, <<e>>, now))

Recalculate ==
    \E sessionId \in SessionIds(db) :
        Request("recalculate", recalculate(db, sessionId, now))

Tick ==
    /\ now < MaxTicks * TickMs
    /\ now' = now + TickMs
    /\ UNCHANGED <<gs, lastOp, refused, db, requests, app, tr, net, recorded, calls, stint, trail>>

\* One session followed through the clock.
NextServer ==
    \/ OnlySessionPost
    \/ SessionPutPause
    \/ SessionGet
    \/ GamePost
    \/ GamePutState
    \/ GamePutFinal
    \/ EventPut
    \/ Recalculate
    \/ Tick

SpecServer == Init /\ [][NextServer]_vars

\* Several sessions side by side at one reading of the clock.
NextReplay ==
    \/ SessionPost
    \/ GamePost
    \/ GamePutState
    \/ GamePutFinal
    \/ EventPut
    \/ Recalculate

SpecReplay == Init /\ [][NextReplay]_vars

(* ------------------------------------- sessions with games without events *)

GamePostWithoutStart ==
    /\ Len(db.games) < MaxGames
    /\ \E sessionId \in SessionIds(db) :
          Insert(gamePostWithoutStart(db, sessionId, now))

\* Several sessions at one reading of the clock, some of their games left
\* without a game_start event.
NextTotals ==
    \/ SessionPost
    \/ GamePost
    \/ GamePostWithoutStart
    \/ GamePutFinal
    \/ EventPut
    \/ Recalculate

SpecTotals == Init /\ [][NextTotals]_vars

(* --------------------------- two recalculate calls on one session at once *)

\* The requests that fill the tables come before the calls start.
CSessionPost == ~calls.running /\ OnlySessionPost

CSessionPutPause == ~calls.running /\ SessionPutPause

CGamePost == ~calls.running /\ GamePost

CGamePutFinal == ~calls.running /\ GamePutFinal

\* The client of this specification numbers the events of a game as
\* recordEvent does, one after the other.
CEventPut ==
    /\ ~calls.running
    /\ ClientEvents(db) < MaxEvents
    /\ \E gameId \in GameIds(db) :
          \E e \in EventMenu(gameId) :
              /\ e.sequenceNumber = Len(GameEvents(db, gameId))
              /\ ~e.usedFreebie
              /\ Insert(eventPut(db, <<e>>, now))

\* A step of call c of the handler that leaves the client alone.
CallStep(c, call, d) ==
    /\ calls' = [calls EXCEPT !.of[c] = call]
    /\ db' = d
    /\ lastOp' = "recalculate"
    /\ UNCHANGED <<gs, refused, now, requests, app, tr, net, recorded, stint, trail>>

\* The requests arrive: both name the same session.
StartCalls ==
    /\ ~calls.running
    /\ \E sessionId \in SessionIds(db) :
          calls' = [NoCalls EXCEPT !.running = TRUE, !.sessionId = sessionId,
                                   !.start = db]
    /\ lastOp' = "request"
    /\ UNCHANGED <<gs, refused, db, now, requests, app, tr, net, recorded, stint, trail>>

\* db.query.sessions.findFirst; of the two calls, "a" names the one that
\* reads first.
ReadSession ==
    \E c \in Callers :
        /\ calls.running /\ calls.of[c].pc = "session"
        /\ c = "b" => calls.of["a"].pc # "session"
        /\ CallStep(c, [calls.of[c] EXCEPT !.pc = "games",
                                           !.session = db.sessions[calls.sessionId]],
                    db)

\* db.query.games.findMany, then the loop over the games read, with the
\* events of each.
ReadGames ==
    \E c \in Callers :
        /\ calls.running /\ calls.of[c].pc = "games"
        /\ LET sessionGames == SessionGames(db, calls.sessionId)
           IN CallStep(c, [calls.of[c] EXCEPT
                              !.pc = "write",
                              !.sessionGames = sessionGames,
                              !.acc = ProcessGames(db, sessionGames)],
                       db)

\* One turn of the loop that applies the game updates.
WriteGameRow ==
    \E c \in Callers :
        LET call == calls.of[c]
        IN /\ calls.running /\ call.pc = "write"
           /\ call.next <= Len(call.acc.gameUpdates)
           /\ LET gu == call.acc.gameUpdates[call.next]
              IN CallStep(c, [call EXCEPT !.next = @ + 1],
                          [db EXCEPT !.games[gu.gameId] = WriteGame(@, gu)])

\* Date.now(), the session update computed from it, the write of the session.
WriteSessionRow ==
    \E c \in Callers :
        LET call == calls.of[c]
        IN /\ calls.running /\ call.pc = "write"
           /\ call.next > Len(call.acc.gameUpdates)
           /\ CallStep(c, [call EXCEPT !.pc = "done", !.t = now],
                       [db EXCEPT !.sessions[calls.sessionId] =
                                     WriteSession(@, call, now)])

NextCalls ==
    \/ CSessionPost
    \/ CSessionPutPause
    \/ CGamePost
    \/ CGamePutFinal
    \/ CEventPut
    \/ Tick
    \/ StartCalls
    \/ ReadSession
    \/ ReadGames
    \/ WriteGameRow
    \/ WriteSessionRow

SpecCalls == Init /\ [][NextCalls]_vars

(* ------------------------------------ the component with its tracking hook *)

\* A call of a hook function, through the component's wrapper, that takes
\* the hook from gs to t, a0 being the component's refs as the wrapper leaves
\* them: the render, then the effects.
Act(op, t, a0) ==
    LET c == RunEffects(Client(a0, tr, net, recorded), gs, t)
    IN /\ InBounds(t)
       /\ c.recorded <= MaxRecorded
       /\ gs' = t
       /\ lastOp' = op
       /\ refused' = (t = gs)
       /\ app' = c.app
       /\ tr' = c.tr
       /\ net' = c.net
       /\ recorded' = c.recorded
       /\ UNCHANGED <<db, now, requests, calls, stint, trail>>

\* A response, or the failure of a request, that leaves the client as c and
\* the server's tables as d.
Settle(c, d) ==
    /\ app' = c.app
    /\ tr' = c.tr
    /\ net' = c.net
    /\ recorded' = c.recorded
    /\ db' = d
    /\ lastOp' = "response"
    /\ UNCHANGED <<gs, refused, now, requests, calls, stint, trail>>

ThisClient == Client(app, tr, net, recorded)

\* The game screen is rendered: its buttons are there, for every mode.
OnGameScreen == gs.sessionActive /\ gs.gameActive

\* The start button; the specification follows one session.
TStartSession ==
    /\ ~gs.sessionActive
    /\ Len(db.sessions) = 0
    /\ ~net.sessionPost
    /\ Act("startSession", startSession(gs), app)

\* The New Game button; the specification starts a game once the POST of
\* the game before has been answered.
TStartGame ==
    /\ gs.sessionActive
    /\ ~gs.gameActive
    /\ ~net.creating
    /\ Len(db.games) < MaxGames
    /\ Act("startNewGame", startNewGame(gs), app)

TEndSession ==
    /\ gs.sessionActive
    /\ Act("endSession", endSession(gs), app)

TMakeShot ==
    /\ OnGameScreen
    /\ Act("makeShot", makeShot(gs), app)

\* trackedMissShot.
TMissShot ==
    /\ OnGameScreen
    /\ Act("missShot", missShot(gs), [app EXCEPT !.trackingMiss = TRUE])

TEnterPointMode ==
    /\ OnGameScreen
    /\ Act("enterPointMode", enterPointMode(gs), app)

TEnterMultiplierMode ==
    /\ OnGameScreen
    /\ Act("enterMultiplierMode", enterMultiplierMode(gs), app)

TContinueInPointMode ==
    /\ OnGameScreen
    /\ Act("continueInPointMode", continueInPointMode(gs), app)

\* undoWithSound.
TUndo ==
    /\ OnGameScreen
    /\ Act("undo", undo(gs), app)

\* createSession from the response of POST /api/session.
SessionCreated ==
    /\ net.sessionPost
    /\ Settle([ThisClient EXCEPT
                 !.tr = [@ EXCEPT !.sessionId = Len(db.sessions) + 1],
                 !.net = [@ EXCEPT !.sessionPost = FALSE]],
              sessionPost(db, DurationSeconds, now))

\* endSessionTracking from the response of its PUT /api/session: the body
\* names the session "id", the handler asks for "sessionId" and answers 400.
SessionEnded ==
    /\ net.sessionEnd
    /\ Settle([ThisClient EXCEPT
                 !.tr = [@ EXCEPT !.sessionId = NULL],
                 !.net = [@ EXCEPT !.sessionEnd = FALSE]],
              db)

\* createGame from the response of POST /api/game, sent once the session id
\* is there.
GameCreated ==
    /\ net.creating
    /\ tr.sessionId # NULL
    /\ Settle(gameCreated(ThisClient, Len(db.games) + 1),
              gamePost(db, tr.sessionId, now))

\* A batch of recordEvent is stored and the fetch resolves.
BatchDelivered ==
    \E batch \in net.batches :
        Settle([ThisClient EXCEPT !.net = [@ EXCEPT !.batches = @ \ {batch}]],
               eventPut(db, batch, now))

\* The fetch of a batch of recordEvent rejects, the request lost or, the
\* server having stored the batch, the response: the batch goes back to the
\* head of the pending queue.
BatchRejected ==
    \E batch \in net.batches, processed \in BOOLEAN :
        /\ net.failures < MaxFailures
        /\ Settle([ThisClient EXCEPT
                  !.net = [@ EXCEPT !.batches = @ \ {batch},
                                    !.failures = @ + 1],
                  !.tr = [@ EXCEPT !.pendingEvents = batch \o @]],
                  IF processed THEN eventPut(db, batch, now) ELSE db)

\* The sequence s without its i-th element.
RemoveAt(s, i) == SubSeq(s, 1, i - 1) \o SubSeq(s, i + 1, Len(s))

\* endGameTracking from the response of its flush: the pending queue is
\* emptied and the PUT of the game goes out.
FlushDone ==
    \E i \in 1..Len(net.ends) :
        /\ net.ends[i].pos = "flush"
        /\ LET k == [tr EXCEPT !.pendingEvents = << >>]
           IN Settle([ThisClient EXCEPT
                        !.tr = k,
                        !.net = [@ EXCEPT !.ends[i] =
                                    [@ EXCEPT !.pos = "gamePut",
                                              !.body = GamePutBody(k, net.ends[i])]]],
                     eventPut(db, net.ends[i].batch, now))

\* The flush of endGameTracking rejects: catch, then finally.
FlushRejected ==
    \E i \in 1..Len(net.ends), processed \in BOOLEAN :
        /\ net.ends[i].pos = "flush"
        /\ net.failures < MaxFailures
        /\ Settle([ThisClient EXCEPT
                     !.tr = [@ EXCEPT !.gameId = NULL],
                     !.net = [@ EXCEPT !.ends = RemoveAt(@, i),
                                       !.failures = @ + 1]],
                  IF processed THEN eventPut(db, net.ends[i].batch, now) ELSE db)

\* endGameTracking from the response of its PUT /api/game (without a game
\* id the handler answers 400): finally.
GamePutDone ==
    \E i \in 1..Len(net.ends) :
        /\ net.ends[i].pos = "gamePut"
        /\ Settle([ThisClient EXCEPT
                     !.tr = [@ EXCEPT !.gameId = NULL],
                     !.net = [@ EXCEPT !.ends = RemoveAt(@, i)]],
                  IF net.ends[i].body.gameId # NULL
                  THEN gamePutFinal(db, net.ends[i].body.gameId,
                                    net.ends[i].body, FALSE, now)
                  ELSE db)

NextTrack ==
    \/ TStartSession
    \/ TStartGame
    \/ TEndSession
    \/ TMakeShot
    \/ TMissShot
    \/ TEnterPointMode
    \/ TEnterMultiplierMode
    \/ TContinueInPointMode
    \/ TUndo
    \/ SessionCreated
    \/ SessionEnded
    \/ GameCreated
    \/ BatchDelivered
    \/ BatchRejected
    \/ FlushDone
    \/ FlushRejected
    \/ GamePutDone

SpecTrack == Init /\ [][NextTrack]_vars

(* ------------------------------ the final shot and the end-of-game tracking *)

\* The game in progress: the one whose id the tracking hook holds or, its
\* POST not answered yet, the one the server will create for it.
GameInProgress ==
    IF ~gs.gameActive THEN NULL
    ELSE IF tr.gameId # NULL THEN tr.gameId
    ELSE IF net.creating THEN Len(db.games) + 1
    ELSE NULL

\* A handler that takes the hook from gs to t after it has left the client
\* as c0, and the trail as tl: the render, then the effects.
Handled(op, t, c0, tl) ==
    LET c == RunEffects(c0, gs, t)
    IN /\ InBounds(t)
       /\ c.recorded <= MaxRecorded
       /\ gs' = t
       /\ lastOp' = op
       /\ refused' = (t = gs)
       /\ app' = c.app
       /\ tr' = c.tr
       /\ net' = c.net
       /\ recorded' = c.recorded
       /\ trail' = tl
       /\ UNCHANGED <<db, now, requests, calls, stint>>

\* The start button: the first session, and the session started after the
\* final shot of the first.
FStartSession ==
    /\ ~gs.sessionActive
    /\ ~net.sessionPost
    /\ Len(db.sessions) < MaxSessions
    /\ Len(db.sessions) = 0 \/ gs.finalShotUsed
    /\ Act("startSession", startSession(gs), app)

\* The countdown of the first session; the trail keeps the game in progress
\* at expiry.
FTimerTick ==
    /\ gs.sessionActive /\ gs.timeRemaining > 0 /\ ~gs.paused
    /\ trail = << >>
    /\ Handled("timerTick", timerTick(gs), ThisClient,
               IF timerTick(gs).sessionEndedByTimer
               THEN << [ game |-> GameInProgress, eid |-> NULL ] >>
               ELSE trail)

\* handleFinalMake: addFinalMake, then recordMake with the new score and the
\* state of the render the handler closes over; the trail keeps the event.
FAddFinalMake ==
    LET t == addFinalMake(gs)
    IN /\ gs.finalShotAvailable /\ ~gs.finalShotUsed
       /\ trail # << >>
       /\ Handled("addFinalMake", t,
                  recordEvent(ThisClient,
                      EventData("make", [gs EXCEPT !.score = t.score],
                                t.score - gs.score, NoText, NoText, FALSE)),
                  << [trail[1] EXCEPT !.eid = recorded + 1] >>)

\* handleFinalMiss: addFinalMiss, then recordMiss.
FAddFinalMiss ==
    /\ gs.finalShotAvailable /\ ~gs.finalShotUsed
    /\ trail # << >>
    /\ Handled("addFinalMiss", addFinalMiss(gs),
               recordEvent(ThisClient,
                   EventData("miss", gs, 0, NoText, NoText, FALSE)),
               << [trail[1] EXCEPT !.eid = recorded + 1] >>)

\* Two sessions, the first followed to its expiry and its final shot; every
\* request is answered.
NextFinal ==
    \/ FStartSession
    \/ FTimerTick
    \/ FAddFinalMake
    \/ FAddFinalMiss
    \/ TMakeShot
    \/ TMissShot
    \/ TEnterPointMode
    \/ SessionCreated
    \/ SessionEnded
    \/ GameCreated
    \/ BatchDelivered
    \/ FlushDone
    \/ GamePutDone

SpecFinal == Init /\ [][NextFinal]_vars

(* ------------------------------------------- the hook across a page load *)

\* One game of one session, played by its buttons, with its state synced to
\* the game row and the page loaded again from the session URL. The POSTs of
\* the session and of the game are answered before the next click. stint
\* follows the shots: earned says that the last shot of the current
\* point-mode stint was a make that passed a multiple of 10 and that no
\* ContinueInPointMode followed it; saved holds the value of earned for every
\* snapshot of the undo history; synced is the value of earned when the game
\* row was last written.

\* The session of the page's URL.
UrlSession == Len(db.sessions)

\* The game the tracking hook holds the id of.
ClientGame == Len(db.games)

\* GET /api/session?id=: the body of the response.
sessionGetBody(d, sessionId, t) ==
    LET after == sessionGet(d, sessionId, t)
        session == after.sessions[sessionId]
        sessionGames == SessionGames(after, sessionId)
        found == \E i \in 1..Len(sessionGames) : sessionGames[i] = session.currentGameId
    IN [ session       |-> session,
         games         |-> sessionGames,
         rows          |-> after.games,
         currentGame   |-> IF found THEN session.currentGameId
                           ELSE IF Len(sessionGames) > 0
                           THEN sessionGames[Len(sessionGames)]
                           ELSE NULL,
         timeRemaining |-> IF session.endedAt # NULL THEN NULL
                           ELSE Max(0, (session.durationSeconds * 1000
                                          - ElapsedMs(session, t)) \div 1000),
         isEnded       |-> session.endedAt # NULL ]

\* serverStateToGameState(serverState) for a session that has not ended.
serverStateToGameState(serverState) ==
    LET games == serverState.games
        mostRecentGame == IF serverState.currentGame # NULL
                          THEN serverState.currentGame
                          ELSE IF Len(games) > 0 THEN games[Len(games)] ELSE NULL
        hasGame == mostRecentGame # NULL
    IN [ sessionEnded  |-> FALSE,
         currentGame   |-> mostRecentGame,
         hasGame       |-> hasGame,
         gameIsActive  |-> hasGame /\ serverState.rows[mostRecentGame].isActive,
         gameState     |->
             IF hasGame
             THEN LET row == serverState.rows[mostRecentGame]
                  IN [ score      |-> row.currentScore,
                       multiplier |-> row.currentMultiplier,
                       multiplierShotsRemaining |->
                           row.currentMultiplierShotsRemaining,
                       misses     |-> row.currentMisses,
                       freebiesRemaining |-> row.currentFreebiesRemaining,
                       mode       |-> row.currentMode,
                       finalScore |-> row.finalScore ]
             ELSE << >>,
         timeRemaining |-> serverState.timeRemaining,
         isPaused      |-> serverState.session.isPaused,
         highScore     |-> serverState.session.highScore ]

\* A button of the game screen calling hook function op, which takes the
\* hook to t and the stint to st.
Played(op, t, st) ==
    /\ gs.gameActive
    /\ InBounds(t)
    /\ gs' = t
    /\ lastOp' = op
    /\ refused' = (t = gs)
    /\ stint' = st
    /\ UNCHANGED <<db, now, requests, app, tr, net, recorded, calls, trail>>

\* The stint after a function that calls saveToHistory and leaves the entry
\* earned or not.
Saved(earned) ==
    [stint EXCEPT !.saved = Append(SliceLast(@, HISTORY_KEEP), stint.earned),
                  !.earned = earned]

HStartSession ==
    /\ ~gs.sessionActive
    /\ Len(db.sessions) = 0
    /\ gs' = startSession(gs)
    /\ db' = gamePost(sessionPost(db, DurationSeconds, now), 1, now)
    /\ lastOp' = "startSession"
    /\ refused' = FALSE
    /\ stint' = NoStint
    /\ UNCHANGED <<now, requests, app, tr, net, recorded, calls, trail>>

HMakeShot ==
    /\ Played("makeShot", makeShot(gs),
              Saved(/\ gs.mode = "point"
                    /\ makeShot(gs).score \div 10 > gs.score \div 10))

HMissShot ==
    /\ Played("missShot", missShot(gs), Saved(FALSE))

HEnterPointMode ==
    /\ gs.mode = "multiplier"
    /\ Played("enterPointMode", enterPointMode(gs), Saved(FALSE))

HEnterMultiplierMode ==
    /\ gs.mode = "point"
    /\ Played("enterMultiplierMode", enterMultiplierMode(gs),
              IF enterMultiplierMode(gs) = gs THEN stint ELSE Saved(FALSE))

HContinueInPointMode ==
    /\ gs.mode = "point"
    /\ gs.canEnterMultiplierMode
    /\ Played("continueInPointMode", continueInPointMode(gs),
              [stint EXCEPT !.earned = FALSE])

HUndo ==
    /\ Len(gs.history) > 0
    /\ Played("undo", undo(gs),
              [stint EXCEPT !.earned = stint.saved[Len(stint.saved)],
                            !.saved = SubSeq(stint.saved, 1, Len(stint.saved) - 1)])

\* The debounced effect that syncs the game state: its PUT /api/game.
HSync ==
    /\ gs.gameActive
    /\ requests < MaxRequests
    /\ ClientGame > 0
    /\ LET d == gamePutState(db, ClientGame, gs)
       IN /\ d # db \/ stint.synced # stint.earned
          /\ db' = d
    /\ stint' = [stint EXCEPT !.synced = stint.earned]
    /\ requests' = requests + 1
    /\ lastOp' = "syncGameState"
    /\ UNCHANGED <<gs, refused, now, app, tr, net, recorded, calls, trail>>

\* The page is loaded again from the session URL during a game: the session
\* is fetched and the freshly mounted hook hydrated from it; the lifecycle
\* effects of the render that follows take the session and the game for new
\* ones and post them, the game with the session id the hydration has set.
HReload ==
    /\ gs.gameActive
    /\ requests < MaxRequests
    /\ Len(db.sessions) < MaxSessions
    /\ Len(db.games) < MaxGames
    /\ LET serverState == sessionGetBody(db, UrlSession, now)
           fetched == sessionGet(db, UrlSession, now)
           t == hydrateFromServer(InitialGameState,
                                  serverStateToGameState(serverState))
           posted == sessionPost(fetched, DurationSeconds, now)
       IN /\ ~serverState.isEnded
          /\ gs' = t
          /\ db' = IF t.gameActive THEN gamePost(posted, UrlSession, now)
                   ELSE posted
          /\ stint' = [ earned |-> t.gameActive /\ stint.synced,
                        saved  |-> << >>,
                        synced |-> FALSE ]
    /\ requests' = requests + 1
    /\ lastOp' = "hydrateFromServer"
    /\ refused' = FALSE
    /\ UNCHANGED <<now, app, tr, net, recorded, calls, trail>>

NextHydrate ==
    \/ HStartSession
    \/ HMakeShot
    \/ HMissShot
    \/ HEnterPointMode
    \/ HEnterMultiplierMode
    \/ HContinueInPointMode
    \/ HUndo
    \/ HSync
    \/ HReload

SpecHydrate == Init /\ [][NextHydrate]_vars

(* --------------------------------------------- one game and its undo trail *)

\* A game played by its mutating actions from StartGame on, with the scoring
\* state before each action kept in trail. Games are explored up to
\* MaxActions actions, with the makes shot in point mode.

\* Mutating actions explored in one game: one more than the undo history
\* holds.
MaxActions == 21

\* Mutating action op takes the hook to t.
Mutated(op, t) ==
    /\ gs.gameActive
    /\ t # gs
    /\ Len(trail) < MaxActions
    /\ t.score <= MaxScore
    /\ t.multiplier <= MaxMultiplier
    /\ gs' = t
    /\ lastOp' = op
    /\ refused' = FALSE
    /\ trail' = Append(trail, Snapshot(gs))
    /\ UNCHANGED <<db, now, requests, app, tr, net, recorded, calls, stint>>

\* startSession or startNewGame takes the hook to t.
Started(op, t) ==
    /\ gs' = t
    /\ lastOp' = op
    /\ refused' = FALSE
    /\ trail' = << >>
    /\ UNCHANGED <<db, now, requests, app, tr, net, recorded, calls, stint>>

UStartSession ==
    /\ ~gs.sessionActive
    /\ Started("startSession", startSession(gs))

UStartGame ==
    /\ gs.sessionActive /\ ~gs.gameActive
    /\ Started("startNewGame", startNewGame(gs))

UMakeShot ==
    /\ gs.mode = "point"
    /\ Mutated("makeShot", makeShot(gs))

UMissShot ==
    /\ Mutated("missShot", missShot(gs))

UEnterPointMode ==
    /\ Mutated("enterPointMode", enterPointMode(gs))

UEnterMultiplierMode ==
    /\ Mutated("enterMultiplierMode", enterMultiplierMode(gs))

UContinueInPointMode ==
    /\ Mutated("continueInPointMode", continueInPointMode(gs))

NextUndo ==
    \/ UStartSession
    \/ UStartGame
    \/ UMakeShot
    \/ UMissShot
    \/ UEnterPointMode
    \/ UEnterMultiplierMode
    \/ UContinueInPointMode

SpecUndo == Init /\ [][NextUndo]_vars

(* ------------------------------------------------ one game, a long streak *)

\* A game in which the multiplier is built by a streak of makes in multiplier
\* mode and then spent in point mode. Streaks are explored up to a multiplier
\* of MaxStreak, and point mode while multiplier shots remain.
MaxStreak == 20

\* A shot or mode button calling hook function op, which takes the hook to t.
Streak(op, t) ==
    /\ gs.gameActive
    /\ t # gs
    /\ t.multiplier <= MaxStreak
    /\ gs.mode = "point" => gs.multiplierShotsRemaining > 0
    /\ gs' = t
    /\ lastOp' = op
    /\ refused' = FALSE
    /\ UNCHANGED <<db, now, requests, app, tr, net, recorded, calls, stint, trail>>

KStartSession ==
    /\ ~gs.sessionActive
    /\ gs' = startSession(gs)
    /\ lastOp' = "startSession"
    /\ refused' = FALSE
    /\ UNCHANGED <<db, now, requests, app, tr, net, recorded, calls, stint, trail>>

KMakeShot ==
    /\ Streak("makeShot", makeShot(gs))

KMissShot ==
    /\ Streak("missShot", missShot(gs))

KEnterPointMode ==
    /\ Streak("enterPointMode", enterPointMode(gs))

NextStreak ==
    \/ KStartSession
    \/ KMakeShot
    \/ KMissShot
    \/ KEnterPointMode

SpecStreak == Init /\ [][NextStreak]_vars

(* ================================================================ claims *)

MutatingOps ==
    {"makeShot", "missShot", "enterPointMode", "enterMultiplierMode",
     "continueInPointMode"}

GameplayOps == MutatingOps \cup {"undo"}

\* Whether the state machine allows action op in hook state s.
Allowed(op, s) ==
    CASE op = "makeShot"            -> s.gameActive
      [] op = "missShot"            -> s.gameActive
      [] op = "enterPointMode"      -> s.mode = "multiplier"
      [] op = "enterMultiplierMode" -> s.mode = "point" /\ s.canEnterMultiplierMode
      [] op = "continueInPointMode" -> s.mode = "point" /\ s.canEnterMultiplierMode
      [] OTHER                      -> FALSE

\* The fields of one game's play state.
PlayState(s) ==
    [ mode                     |-> s.mode,
      score                    |-> s.score,
      multiplier               |-> s.multiplier,
      multiplierShotsRemaining |-> s.multiplierShotsRemaining,
      misses                   |-> s.misses,
      freebiesRemaining        |-> s.freebiesRemaining,
      canEnterMultiplierMode   |-> s.canEnterMultiplierMode ]

\* C1: after every step, misses >= 0, multiplier >= 1, freebiesRemaining >= 0
\* and multiplierShotsRemaining >= 0.
C1_ScoringBounds ==
    /\ gs.misses >= 0
    /\ gs.multiplier >= 1
    /\ gs.freebiesRemaining >= 0
    /\ gs.multiplierShotsRemaining >= 0

\* C1 witness: the miss that takes the last life has been taken, with the
\* freebies and the multiplier shots of a point-mode stint used up.
C1_Witness ==
    /\ lastOp = "missShot"
    /\ gs.misses = 0
    /\ gs.mode = "point"
    /\ gs.freebiesRemaining = 0
    /\ gs.multiplierShotsRemaining = 0
    /\ ~gs.gameActive

\* C2: in an active game, any one mutating action that the state machine
\* allows, followed by Undo, gives back the scoring state (mode, score,
\* multiplier, multiplierShotsRemaining, misses, freebiesRemaining,
\* canEnterMultiplierMode, tenThreshold, session high score) the action
\* started from.
C2_UndoRestoresPrior ==
    [][(gs.gameActive /\ lastOp' \in MutatingOps /\ Allowed(lastOp', gs))
         => Snapshot(undo(gs')) = Snapshot(gs)]_vars

\* C10: with no game active, MakeShot, MissShot, EnterPointMode,
\* EnterMultiplierMode, ContinueInPointMode and Undo leave the play state and
\* the undo history as they were.
C10_NoGameNoOp ==
    [][(~gs.gameActive /\ lastOp' \in GameplayOps)
         => (PlayState(gs') = PlayState(gs) /\ gs'.history = gs.history)]_vars

(* The claims on reconciliation are checked on every database the server
   can hold: the handler is applied, as an operator, to the database of the
   state. *)

\* The readings of the clock from now on.
LaterTimes == {now + k * TickMs : k \in 0..MaxTicks}

\* C3: reconciliation is idempotent: for every session, a second run of the
\* recalculate handler, at any later time at which the countdown has run out
\* exactly if it had at the first run, leaves every game row and every
\* session row as the first run left them.
C3_ReconcileIdempotent ==
    \A sessionId \in SessionIds(db) :
        \A once \in {recalculate(db, sessionId, now)} : \A t2 \in LaterTimes :
            (TimerExpired(db.sessions[sessionId], now)
               = TimerExpired(db.sessions[sessionId], t2))
              => recalculate(once, sessionId, t2) = once

\* A recalculation has just run on a session whose countdown had run out and
\* which holds a game that the recalculation found out of misses.
C3_Witness ==
    /\ lastOp = "recalculate"
    /\ \E g \in GameIds(db) :
          /\ db.games[g].endReason = "out_of_misses"
          /\ db.games[g].totalMisses = 1
          /\ ~db.games[g].isActive
          /\ db.sessions[db.games[g].sessionId].endedAt # NULL
          /\ db.sessions[db.games[g].sessionId].totalGames = 1

\* The event log of a game: its events in sequenceNumber order, without the
\* game's id and without the time of storage.
EventLog(d, gameId) ==
    LET evs == GameEvents(d, gameId)
    IN [k \in 1..Len(evs) |->
          [evs[k] EXCEPT !.gameId = NULL, !.occurredAt = NULL, !.eid = NULL]]

\* Two sessions whose games have identical event sequences.
SameEventLogs(d, s1, s2) ==
    /\ Len(SessionGames(d, s1)) = Len(SessionGames(d, s2))
    /\ \A k \in 1..Len(SessionGames(d, s1)) :
          EventLog(d, SessionGames(d, s1)[k]) = EventLog(d, SessionGames(d, s2)[k])

\* Two sessions whose corresponding games agree on whether an endReason is
\* cached.
SameEndReasonSet(d, s1, s2) ==
    \A k \in 1..Len(SessionGames(d, s1)) :
        (d.games[SessionGames(d, s1)[k]].endReason = NoText)
          = (d.games[SessionGames(d, s2)[k]].endReason = NoText)

GameOutcome(game) ==
    [ finalScore |-> game.finalScore, highMultiplier |-> game.highMultiplier,
      totalMakes |-> game.totalMakes, totalMisses |-> game.totalMisses,
      isActive |-> game.isActive ]

SessionOutcome(session) ==
    [ totalGames |-> session.totalGames, totalPoints |-> session.totalPoints,
      highScore |-> session.highScore ]

\* Reconciliation gives sessions s1 and s2 the same outcome.
SameOutcome(d, s1, s2) ==
    LET d1 == recalculate(d, s1, now)
        d2 == recalculate(d, s2, now)
    IN /\ SessionOutcome(d1.sessions[s1]) = SessionOutcome(d2.sessions[s2])
       /\ \A k \in 1..Len(SessionGames(d, s1)) :
             GameOutcome(d1.games[SessionGames(d, s1)[k]])
               = GameOutcome(d2.games[SessionGames(d, s2)[k]])

Quiescent ==
    /\ tr.pendingEvents = << >>
    /\ tr.earlyEvents = << >>
    /\ net.batches = {}
    /\ net.ends = << >>
    /\ ~net.creating
    /\ ~net.sessionPost

\* The database without the second and later copies of an event of
\* recordEvent: every event stored exactly once.
StoredOnce(d) ==
    [d EXCEPT !.events =
        LET RECURSIVE Keep(_)
            Keep(n) ==
                IF n = 0 THEN << >>
                ELSE IF /\ d.events[n].eid # NULL
                        /\ \E j \in 1..(n - 1) : d.events[j].eid = d.events[n].eid
                THEN Keep(n - 1)
                ELSE Append(Keep(n - 1), d.events[n])
        IN Keep(Len(d.events))]

\* What reconciliation of session sessionId yields: the outcome of every
\* game and the aggregates of the session.
Reconciled(d, sessionId) ==
    LET r == recalculate(d, sessionId, now)
    IN [ games   |-> [g \in GameIds(r) |-> GameOutcome(r.games[g])],
         session |-> SessionOutcome(r.sessions[sessionId]) ]

\* C5: duplicate delivery is safe: with a batch stored more than once,
\* reconciliation yields the same per-game finalScore, highMultiplier,
\* totalMakes, totalMisses and isActive and the same session aggregates as
\* with every event stored exactly once.
C5_DuplicateDeliverySafe ==
    \A sessionId \in SessionIds(db) :
        Reconciled(db, sessionId) = Reconciled(StoredOnce(db), sessionId)

\* The events of the calls of recordEvent that some queue or some request in
\* flight still holds.
HeldEvents ==
    {tr.pendingEvents[i].eid : i \in 1..Len(tr.pendingEvents)}
      \cup {tr.earlyEvents[i].eid : i \in 1..Len(tr.earlyEvents)}
      \cup UNION {{b[i].eid : i \in 1..Len(b)} : b \in net.batches}
      \cup UNION {{net.ends[k].batch[i].eid : i \in 1..Len(net.ends[k].batch)} :
                    k \in {n \in 1..Len(net.ends) : net.ends[n].pos = "flush"}}

StoredEvents == {db.events[i].eid : i \in 1..Len(db.events)}

\* C6: delivery is at least once: every event handed to recordEvent is
\* stored by the server or still held for sending, in a queue or in a request
\* in flight; none is dropped.
C6_NoEventLost ==
    \A e \in 1..recorded : e \in StoredEvents \/ e \in HeldEvents

\* C7: the events stored for a game carry pairwise distinct sequenceNumbers,
\* the game_start event of the server counted: two rows of a game with the
\* same sequenceNumber are copies of one event of recordEvent.
C7_DistinctSequenceNumbers ==
    \A i \in 1..Len(db.events), j \in 1..Len(db.events) :
        (/\ i < j
         /\ db.events[i].gameId = db.events[j].gameId
         /\ db.events[i].sequenceNumber = db.events[j].sequenceNumber)
          => (db.events[i].eid # NULL /\ db.events[i].eid = db.events[j].eid)

\* The snapshot of an event row, the snapshot of the hook state.
EventSnapshot(e) ==
    [ score |-> e.score, multiplier |-> e.multiplier,
      multiplierShotsRemaining |-> e.multiplierShotsRemaining,
      misses |-> e.missesRemaining, freebiesRemaining |-> e.freebiesRemaining,
      mode |-> e.mode ]

ClientSnapshot(s) ==
    [ score |-> s.score, multiplier |-> s.multiplier,
      multiplierShotsRemaining |-> s.multiplierShotsRemaining,
      misses |-> s.misses, freebiesRemaining |-> s.freebiesRemaining,
      mode |-> s.mode ]

\* C8: the event log alone reconstructs the game: in a game, once every event
\* recorded is delivered, the snapshot of the game's last event by
\* sequenceNumber is the client's score, multiplier,
\* multiplierShotsRemaining, misses, freebiesRemaining and mode.
C8_LastEventIsClientState ==
    (gs.gameActive /\ Quiescent /\ tr.gameId # NULL /\ net.failures = 0)
      => LET evs == GameEvents(db, tr.gameId)
         IN EventSnapshot(evs[Len(evs)]) = ClientSnapshot(gs)

\* An action in the wrong mode for it.
WrongMode(op, s) ==
    \/ op = "enterPointMode" /\ s.mode = "point"
    \/ /\ op \in {"enterMultiplierMode", "continueInPointMode"}
       /\ (s.mode = "multiplier" \/ ~s.canEnterMultiplierMode)
    \/ op = "undo" /\ Len(s.history) = 0

\* C9: an action in the wrong mode changes nothing: EnterPointMode in point
\* mode, EnterMultiplierMode or ContinueInPointMode in multiplier mode or with
\* canEnterMultiplierMode false, Undo with an empty history leave the whole
\* hook state (the scoring fields, the session high score, the history) as it
\* was and record no event: the queues, the requests in flight and the
\* server's tables stay as they were.
C9_WrongModeNoOp ==
    [][WrongMode(lastOp', gs)
         => /\ gs' = gs
            /\ recorded' = recorded
            /\ tr' = tr
            /\ net' = net
            /\ db' = db]_vars

\* EnterMultiplierMode has just been refused in a game in point mode that
\* the server knows, for want of canEnterMultiplierMode, with an undo history
\* and an event in the pending queue.
C9_Witness ==
    /\ lastOp = "enterMultiplierMode"
    /\ refused
    /\ gs.gameActive
    /\ gs.mode = "point"
    /\ ~gs.canEnterMultiplierMode
    /\ Len(gs.history) > 0
    /\ tr.gameId # NULL
    /\ Len(tr.pendingEvents) > 0

\* C11: for a game with events, without a game_end event and without a
\* cached endReason, reconciliation sets isActive false and endReason
\* 'out_of_misses' if the last event by sequenceNumber is a miss with
\* missesRemaining <= 0 and usedFreebie false; with any other last event it
\* leaves the game active with endReason unset.
C11_OutOfMissesFromLastEvent ==
    \A g \in GameIds(db) :
        LET evs   == GameEvents(db, g)
            last  == evs[Len(evs)]
            after == recalculate(db, db.games[g].sessionId, now).games[g]
        IN (Len(evs) > 0 /\ GameEndAt(evs) = NULL /\ db.games[g].endReason = NoText)
             => IF /\ last.eventType = "miss"
                   /\ last.missesRemaining <= 0
                   /\ ~last.usedFreebie
                THEN ~after.isActive /\ after.endReason = "out_of_misses"
                ELSE after.isActive /\ after.endReason = NoText

\* A recalculation has just closed a game as out of misses from its last
\* event, a miss no freebie absorbed, the log holding a miss that one did.
C11_Witness ==
    /\ lastOp = "recalculate"
    /\ \E g \in GameIds(db) :
          LET evs == GameEvents(db, g)
          IN /\ Len(evs) = 3
             /\ GameEndAt(evs) = NULL
             /\ evs[2].eventType = "miss" /\ evs[2].usedFreebie
             /\ evs[3].eventType = "miss" /\ ~evs[3].usedFreebie
             /\ evs[3].missesRemaining = 0
             /\ db.games[g].endReason = "out_of_misses"
             /\ ~db.games[g].isActive

\* The time at which the countdown of session row s runs out.
ExpiryTime(s) == s.startedAt + s.durationSeconds * 1000 + s.totalPausedMs

\* C12: a session that is not paused, whose countdown has run out and whose
\* endedAt is unset gets endedAt = startedAt + durationSeconds * 1000 +
\* totalPausedMs when it is next fetched or reconciled, at whatever time
\* after expiry the call is made.
C12_EndedAtIsExpiry ==
    \A sessionId \in SessionIds(db) : \A t \in LaterTimes :
        LET s == db.sessions[sessionId]
        IN (s.endedAt = NULL /\ ~s.isPaused /\ TimerExpired(s, t))
             => /\ sessionGet(db, sessionId, t).sessions[sessionId].endedAt
                     = ExpiryTime(s)
                /\ recalculate(db, sessionId, t).sessions[sessionId].endedAt
                     = ExpiryTime(s)

FinalShotOps == {"addFinalMake", "addFinalMiss"}

\* The grace window of a session that the timer ended is open: the 60 second
\* timeout set at expiry is pending and no final shot has been taken.
WindowOpen(s) == s.sessionEndedByTimer /\ s.finalShotTimer /\ ~s.finalShotUsed

\* C13: a final shot applies only in the open grace window and once:
\* AddFinalMake and AddFinalMiss leave the score and the session high score
\* as they were when a final shot has been taken since the expiry, when the
\* 60 second window has closed, or when the session was not ended by the
\* timer; and a final shot right after a successful one changes nothing.
C13_FinalShotOnceInWindow ==
    [][(lastOp' \in FinalShotOps)
         => /\ ~WindowOpen(gs)
                 => (gs'.score = gs.score
                       /\ gs'.sessionHighScore = gs.sessionHighScore)
            /\ (lastOp \in FinalShotOps /\ ~refused) => gs' = gs]_vars

\* AddFinalMake has just been refused after a final make that scored, in a
\* session the timer ended.
C13_Witness ==
    /\ lastOp = "addFinalMake"
    /\ refused
    /\ gs.sessionEndedByTimer
    /\ gs.finalShotUsed
    /\ ~gs.finalShotAvailable
    /\ gs.score > 0
    /\ gs.sessionHighScore = gs.score

\* Every call of the handler has answered.
CallsDone == calls.running /\ \A c \in Callers : calls.of[c].pc = "done"

\* The later of the clock readings of the calls.
LastReading ==
    CHOOSE t \in {calls.of[c].t : c \in Callers} :
        \A c \in Callers : calls.of[c].t <= t

\* C14: two calls of the recalculate handler on one session, their reads and
\* writes interleaved in any order, nothing else writing, leave the tables
\* as one call (at the clock reading of the later one) leaves them.
C14_ConcurrentCallsConverge ==
    CallsDone => db = recalculate(calls.start, calls.sessionId, LastReading)

\* Both calls have answered; the second read the session before the first
\* wrote it and wrote it after the first did, the countdown running out
\* between their readings of the clock, on a session with a game found out
\* of misses.
C14_Witness ==
    /\ CallsDone
    /\ calls.of["a"].t < calls.of["b"].t
    /\ ~TimerExpired(calls.start.sessions[calls.sessionId], calls.of["a"].t)
    /\ db.sessions[calls.sessionId].endedAt # NULL
    /\ calls.of["b"].session = calls.start.sessions[calls.sessionId]
    /\ calls.start.sessions[calls.sessionId].endedAt = NULL
    /\ \E g \in GameIds(db) : db.games[g].endReason = "out_of_misses"

\* Session ids that no session row has.
UnknownSessionIds == (1..(MaxSessions + 1)) \ SessionIds(db)

C16_MakeShotPointMode ==
    [][(lastOp' = "makeShot" /\ gs.gameActive /\ gs.mode = "point")
         => LET points   == IF gs.multiplierShotsRemaining > 0
                            THEN gs.multiplier ELSE 1
                newScore == gs.score + points
                tens     == (newScore \div 10) - (gs.score \div 10)
            IN /\ gs'.score = newScore
               /\ gs'.multiplierShotsRemaining =
                     IF gs.multiplierShotsRemaining > 0
                     THEN gs.multiplierShotsRemaining - 1 ELSE 0
               /\ gs'.multiplier =
                     IF gs.multiplierShotsRemaining = 1 THEN 1 ELSE gs.multiplier
               /\ gs'.misses = IF tens > 0 THEN gs.misses + tens ELSE gs.misses
               /\ gs'.freebiesRemaining = IF tens > 0 THEN 3 ELSE 0
               /\ gs'.canEnterMultiplierMode = (tens > 0)
               /\ gs'.mode = "point"]_vars

\* A make worth the multiplier has just passed 10 in point mode: a miss
\* gained, three freebies, the switch to multiplier mode allowed.
C16_Witness ==
    /\ lastOp = "makeShot"
    /\ gs.gameActive
    /\ gs.mode = "point"
    /\ gs.score = 12
    /\ gs.multiplier = 3
    /\ gs.multiplierShotsRemaining = 1
    /\ gs.misses = 4
    /\ gs.freebiesRemaining = 3
    /\ gs.canEnterMultiplierMode

\* C17: MissShot in point mode of an active game: multiplierShotsRemaining,
\* if positive, is decremented (and the multiplier reset to 1 when it reaches
\* 0) whether or not a freebie absorbs the miss; then if freebiesRemaining > 0
\* exactly one freebie is consumed, misses is unchanged and
\* canEnterMultiplierMode becomes false; otherwise misses decreases by exactly
\* 1. The score does not change.
C17_MissShotPointMode ==
    [][(lastOp' = "missShot" /\ gs.gameActive /\ gs.mode = "point")
         => /\ gs'.score = gs.score
            /\ gs'.multiplierShotsRemaining =
                  IF gs.multiplierShotsRemaining > 0
                  THEN gs.multiplierShotsRemaining - 1
                  ELSE gs.multiplierShotsRemaining
            /\ gs'.multiplier =
                  IF gs.multiplierShotsRemaining = 1 THEN 1 ELSE gs.multiplier
            /\ IF gs.freebiesRemaining > 0
               THEN /\ gs'.freebiesRemaining = gs.freebiesRemaining - 1
                    /\ gs'.misses = gs.misses
                    /\ ~gs'.canEnterMultiplierMode
               ELSE /\ gs'.misses = gs.misses - 1
                    /\ gs'.freebiesRemaining = gs.freebiesRemaining]_vars

\* A miss absorbed by a freebie has used up the last multiplier shot: the
\* multiplier is back to 1 with no miss spent.
C17_Witness ==
    /\ lastOp = "missShot"
    /\ gs.gameActive
    /\ gs.mode = "point"
    /\ gs.score >= 10
    /\ gs.freebiesRemaining = 2
    /\ gs.multiplierShotsRemaining = 0
    /\ gs.multiplier = 1
    /\ gs.misses = 4
    /\ ~gs.canEnterMultiplierMode

\* C18: a game is active only while lives remain. In every reachable state
\* gameActive implies misses >= 1, and the MissShot that takes misses to 0
\* ends the game in the same step and folds the score into the session high
\* score.
C18_ActiveOnlyWithLives ==
    /\ [](gs.gameActive => gs.misses >= 1)
    /\ [][(lastOp' = "missShot" /\ gs.gameActive /\ gs'.misses = 0)
            => /\ ~gs'.gameActive
               /\ gs'.sessionHighScore = Max(gs.sessionHighScore, gs.score)
               /\ gs'.score = gs.score]_vars

\* The last life has just been lost in multiplier mode, in a game that had
\* scored: the game is over and its score is the session's high score.
C18_Witness ==
    /\ lastOp = "missShot"
    /\ gs.misses = 0
    /\ ~gs.gameActive
    /\ gs.mode = "multiplier"
    /\ gs.score > 0
    /\ gs.sessionHighScore = gs.score

\* C19: the mode-change actions produce the specified post-state.
\* EnterPointMode from multiplier mode sets mode = point,
\* canEnterMultiplierMode = false, freebiesRemaining = 3, and
\* multiplierShotsRemaining = 5 when multiplier > 1, leaving score, misses and
\* multiplier unchanged. EnterMultiplierMode from point mode with
\* canEnterMultiplierMode sets mode = multiplier, multiplier = 1,
\* freebiesRemaining = 0, leaving score and misses unchanged.
C19_ModeChangePostState ==
    [][/\ (lastOp' = "enterPointMode" /\ gs.mode = "multiplier")
            => /\ gs'.mode = "point"
               /\ ~gs'.canEnterMultiplierMode
               /\ gs'.freebiesRemaining = 3
               /\ gs.multiplier > 1 => gs'.multiplierShotsRemaining = 5
               /\ gs'.score = gs.score
               /\ gs'.misses = gs.misses
               /\ gs'.multiplier = gs.multiplier
       /\ (lastOp' = "enterMultiplierMode" /\ gs.mode = "point"
                                           /\ gs.canEnterMultiplierMode)
            => /\ gs'.mode = "multiplier"
               /\ gs'.multiplier = 1
               /\ gs'.freebiesRemaining = 0
               /\ gs'.score = gs.score
               /\ gs'.misses = gs.misses]_vars

\* Multiplier mode has just been entered again, from a point-mode stint that
\* began with a multiplier above 1 and passed 10 with multiplier shots left.
C19_Witness ==
    /\ lastOp = "enterMultiplierMode"
    /\ ~refused
    /\ gs.mode = "multiplier"
    /\ gs.multiplier = 1
    /\ gs.freebiesRemaining = 0
    /\ gs.multiplierShotsRemaining > 0
    /\ gs.score >= 10
    /\ gs.misses = 4

\* C20: the switch back to multiplier mode is allowed only right after
\* passing a multiple of 10. In every reachable state, states restored by
\* Undo or hydrated from the server included, EnterMultiplierMode succeeds in
\* point mode only if the most recent shot of the current point-mode stint
\* was a make that crossed a multiple of 10, with no miss, non-crossing make
\* or ContinueInPointMode since.
C20_EntryOnlyAfterCrossing ==
    [][(lastOp' = "enterMultiplierMode" /\ gs.mode = "point" /\ ~refused')
         => stint.earned]_vars

\* The hook states that k consecutive calls of undo go through, the state
\* they start from first.
RECURSIVE UndoChain(_, _)
UndoChain(s, k) ==
    IF k = 0 THEN << s >>
    ELSE LET chain == UndoChain(s, k - 1)
         IN Append(chain, undo(chain[Len(chain)]))

\* C21: the undo history holds at most 20 snapshots. After n mutating
\* actions in one game exactly min(n, 20) consecutive Undos succeed, each
\* restoring the state before the corresponding action in reverse order, and
\* the next Undo changes nothing; StartGame empties the history.
C21_UndoHistoryDepth ==
    LET n == Len(trail)
        m == IF n <= 20 THEN n ELSE 20
        chain == UndoChain(gs, m + 1)
    IN /\ \A k \in 1..m : /\ chain[k + 1] # chain[k]
                          /\ Snapshot(chain[k + 1]) = trail[n - k + 1]
       /\ chain[m + 2] = chain[m + 1]
       /\ lastOp = "startNewGame" => gs.history = << >>

\* Hook state s with its game taken as in progress in point mode.
InPointMode(s) == [s EXCEPT !.gameActive = TRUE, !.mode = "point"]

\* The fields a shot in point mode works on.
ShotFields(s) ==
    [ score                    |-> s.score,
      multiplier               |-> s.multiplier,
      multiplierShotsRemaining |-> s.multiplierShotsRemaining,
      misses                   |-> s.misses,
      freebiesRemaining        |-> s.freebiesRemaining ]

\* C22: in every state in which the grace window is open, AddFinalMake and
\* AddFinalMiss apply the same state change as MakeShot and MissShot in point
\* mode (points added, multiplierShotsRemaining decrement and multiplier
\* reset, tier crossing with lives and freebies, life or freebie consumed on
\* a miss), and the game stays ended.
C22_FinalShotAsPointModeShot ==
    [][/\ (lastOp' = "addFinalMake" /\ WindowOpen(gs))
            => /\ ShotFields(gs') = ShotFields(makeShot(InPointMode(gs)))
               /\ ~gs'.gameActive
       /\ (lastOp' = "addFinalMiss" /\ WindowOpen(gs))
            => /\ ShotFields(gs') = ShotFields(missShot(InPointMode(gs)))
               /\ ~gs'.gameActive]_vars

\* C24: in every reachable state a single MakeShot adds at most 10 points,
\* the multiplier being capped, so one make never crosses more than one
\* multiple of 10 and never grants more than one life.
C24_MakeAddsAtMostTen ==
    [][(lastOp' = "makeShot")
         => /\ gs'.score - gs.score <= 10
            /\ (gs'.score \div 10) - (gs.score \div 10) <= 1
            /\ gs'.misses - gs.misses <= 1]_vars

\* C25: in every reachable state the tracked ten-threshold equals
\* floor(score / 10) * 10, after every action, Undo and AddFinalMake
\* included.
C25_TenThresholdTracksScore ==
    gs.lastTenThreshold = (gs.score \div 10) * 10

\* No request of the tracking hook is in flight and none is waiting to go.
NothingInFlight ==
    /\ net.batches = {}
    /\ net.ends = << >>
    /\ ~net.creating
    /\ ~net.sessionPost
    /\ ~net.sessionEnd

\* The rows of the events table that hold the final shot.
FinalShotRows ==
    {i \in 1..Len(db.events) : db.events[i].eid = trail[1].eid}

\* C23: a final shot taken in the grace window is stored as one event of the
\* game that was in progress at expiry: it is never stored with another
\* game and, once every request has been answered, it is stored exactly
\* once, whatever the interleaving of the end-of-game tracking and the shot.
C23_FinalShotStoredWithItsGame ==
    (trail # << >> /\ trail[1].eid # NULL /\ trail[1].game # NULL)
        => /\ \A i \in FinalShotRows : db.events[i].gameId = trail[1].game
           /\ NothingInFlight => Cardinality(FinalShotRows) = 1

\* The rows of the events table that belong to game g.
RowsOf(g) == {i \in 1..Len(db.events) : db.events[i].gameId = g}

\* The rows of game g that carry its greatest sequenceNumber.
TopRows(g) ==
    {i \in RowsOf(g) :
        \A j \in RowsOf(g) : db.events[j].sequenceNumber <= db.events[i].sequenceNumber}

\* C26: for every game with at least one event, reconciliation sets
\* finalScore and the live fields to the snapshot of an event with the
\* greatest sequenceNumber, highMultiplier to the greatest multiplier over
\* all its events, totalMakes and totalMisses to the number of its make and
\* miss events, whatever the occurredAt of the events and the order in which
\* they were stored.
C26_GameFromGreatestSequenceNumber ==
    \A g \in GameIds(db) :
        LET after == recalculate(db, db.games[g].sessionId, now).games[g]
        IN RowsOf(g) # {} =>
             /\ \E i \in TopRows(g) :
                   LET e == db.events[i]
                   IN /\ after.finalScore = e.score
                      /\ after.currentScore = e.score
                      /\ after.currentMultiplier = e.multiplier
                      /\ after.currentMultiplierShotsRemaining = e.multiplierShotsRemaining
                      /\ after.currentMisses = e.missesRemaining
                      /\ after.currentFreebiesRemaining = e.freebiesRemaining
                      /\ after.currentMode = e.mode
             /\ \E i \in RowsOf(g) :
                   /\ after.highMultiplier = db.events[i].multiplier
                   /\ \A j \in RowsOf(g) :
                         db.events[j].multiplier <= after.highMultiplier
             /\ after.totalMakes =
                   Cardinality({i \in RowsOf(g) : db.events[i].eventType = "make"})
             /\ after.totalMisses =
                   Cardinality({i \in RowsOf(g) : db.events[i].eventType = "miss"})

\* A recalculation has just taken the state of a game from the event with
\* the greatest sequenceNumber, which was stored first and occurred first,
\* the event stored after it carrying another snapshot.
C26_Witness ==
    /\ lastOp = "recalculate"
    /\ \E g \in GameIds(db) :
          \E i, j \in RowsOf(g) :
              /\ i < j
              /\ TopRows(g) = {i}
              /\ db.events[i].occurredAt < db.events[j].occurredAt
              /\ db.events[j].eventType # "game_start"
              /\ db.events[i].score # db.events[j].score
              /\ db.events[i].mode # db.events[j].mode
              /\ db.games[g].finalScore = db.events[i].score
              /\ db.games[g].currentMode = db.events[i].mode
              /\ db.games[g].totalMakes = 1
              /\ db.games[g].totalMisses = 1

\* Whether game g, as the tables hold it, has ended: it has a game_end
\* event, or a cached endReason, or its last event took the last life.
EndedByLog(g) ==
    LET evs  == GameEvents(db, g)
        last == evs[Len(evs)]
    IN \/ \E i \in RowsOf(g) : db.events[i].eventType = "game_end"
       \/ db.games[g].endReason # NoText
       \/ last.eventType = "miss" /\ last.missesRemaining <= 0 /\ ~last.usedFreebie

\* C27: for every game with events, reconciliation sets isActive to "not
\* ended", the game being ended exactly when a game_end event exists, or an
\* endReason was already set, or the last event is a miss with
\* missesRemaining <= 0 that no freebie absorbed; an endReason already set is
\* kept, an unset one becomes 'out_of_misses' if the game is out of misses
\* and otherwise 'session_ended' whenever the game is ended.
C27_ActiveAndEndReason ==
    \A g \in GameIds(db) :
        LET evs    == GameEvents(db, g)
            last   == evs[Len(evs)]
            before == db.games[g]
            after  == recalculate(db, before.sessionId, now).games[g]
        IN RowsOf(g) # {} =>
             /\ after.isActive = ~EndedByLog(g)
             /\ before.endReason # NoText => after.endReason = before.endReason
             /\ (before.endReason = NoText /\ EndedByLog(g)) =>
                   after.endReason =
                       IF /\ last.eventType = "miss"
                          /\ last.missesRemaining <= 0
                          /\ ~last.usedFreebie
                       THEN "out_of_misses"
                       ELSE "session_ended"

\* A recalculation has just closed one game as 'session_ended' from its
\* game_end event and left the 'manual_end' of another, whose last event
\* took the last life, as it was.
C27_Witness ==
    /\ lastOp = "recalculate"
    /\ \E g, h \in GameIds(db) :
          LET evs == GameEvents(db, h)
          IN /\ db.games[g].endReason = "session_ended"
             /\ ~db.games[g].isActive
             /\ \E i \in RowsOf(g) : db.events[i].eventType = "game_end"
             /\ db.games[h].endReason = "manual_end"
             /\ ~db.games[h].isActive
             /\ OutOfMisses(evs[Len(evs)])
             /\ db.games[h].finalScore = evs[Len(evs)].score
             /\ db.games[h].highMultiplier = 1

\* The games of session s, and those of them that have at least one event.
GamesOf(s) == {g \in GameIds(db) : db.games[g].sessionId = s}

GamesWithEvents(s) == {g \in GamesOf(s) : RowsOf(g) # {}}

\* The sum of the finalScore of the games S in the tables d.
RECURSIVE SumFinalScore(_, _)
SumFinalScore(d, S) ==
    IF S = {} THEN 0
    ELSE LET g == CHOOSE x \in S : TRUE
         IN d.games[g].finalScore + SumFinalScore(d, S \ {g})

\* C28: after reconciliation the totalGames of the session is the number of
\* its games that have at least one event, totalPoints the sum of the
\* finalScore of those games, highScore the greatest of them (0 if there is
\* none); a game without events is not written and not counted.
C28_SessionAggregates ==
    \A s \in SessionIds(db) :
        LET after == recalculate(db, s, now)
            row   == after.sessions[s]
        IN /\ row.totalGames = Cardinality(GamesWithEvents(s))
           /\ row.totalPoints = SumFinalScore(after, GamesWithEvents(s))
           /\ \A g \in GamesWithEvents(s) : after.games[g].finalScore <= row.highScore
           /\ IF GamesWithEvents(s) = {} THEN row.highScore = 0
              ELSE \E g \in GamesWithEvents(s) : after.games[g].finalScore = row.highScore
           /\ \A g \in GamesOf(s) \ GamesWithEvents(s) : after.games[g] = db.games[g]

\* A recalculation has just counted the one game of a session that has
\* events and left alone the other, which has none and holds the finalScore
\* of a game PUT.
C28_Witness ==
    /\ lastOp = "recalculate"
    /\ \E s \in SessionIds(db) :
          \E g \in GamesWithEvents(s), h \in GamesOf(s) \ GamesWithEvents(s) :
              /\ db.games[g].finalScore = 2
              /\ db.games[g].totalMakes = 1
              /\ db.games[h].finalScore = 5
              /\ db.sessions[s].totalGames = 1
              /\ db.sessions[s].totalPoints = 2
              /\ db.sessions[s].highScore = 2

\* The game of the non-empty set S that was started last (the games of a
\* session are numbered in the order in which they were started).
LastStarted(S) == CHOOSE g \in S : \A h \in S : h <= g

\* C29: after reconciliation of a session that has games, currentGameId is
\* the game started last among those still active, if any game of the
\* session is still active, and otherwise the last game of the session; it
\* is not null and it is a game of that session.
C29_CurrentGameAfterReconcile ==
    \A s \in SessionIds(db) :
        LET after  == recalculate(db, s, now)
            cur    == after.sessions[s].currentGameId
            active == {g \in GamesOf(s) : after.games[g].isActive}
        IN GamesOf(s) # {} =>
             /\ cur # NULL
             /\ cur \in GamesOf(s)
             /\ cur = IF active # {} THEN LastStarted(active)
                      ELSE LastStarted(GamesOf(s))

\* Whether the countdown of session row s has run out at clock reading t: the
\* time elapsed, frozen at pausedAt while the session is paused, has reached
\* the duration.
Expired(s, t) ==
    LET upTo == IF s.isPaused /\ s.pausedAt # NULL THEN s.pausedAt ELSE t
    IN upTo - s.startedAt - s.totalPausedMs >= s.durationSeconds * 1000

C38_HighScoreCoversScore ==
    /\ [](gs.sessionHighScore >= gs.score)
    /\ [][lastOp' \notin {"undo", "startSession"}
             => gs'.sessionHighScore >= gs.sessionHighScore]_vars

\* A final make has just taken the score, and the session high score with
\* it, past the high score of the session so far.
C38_Witness ==
    /\ lastOp = "addFinalMake"
    /\ ~refused
    /\ gs.score >= 2
    /\ gs.sessionHighScore = gs.score
    /\ Len(gs.history) > 0
    /\ gs.history[Len(gs.history)].sessionHighScore < gs.sessionHighScore

C39_BonusBounds ==
    /\ gs.multiplierShotsRemaining <= 5
    /\ gs.freebiesRemaining <= 3
    /\ (gs.mode = "point" /\ gs.multiplierShotsRemaining = 0) => gs.multiplier = 1

\* The last multiplier shot has just been used by a make: the multiplier,
\* above 1 before the shot, is back at 1.
C39_Witness ==
    /\ lastOp = "makeShot"
    /\ gs.gameActive
    /\ gs.mode = "point"
    /\ gs.multiplierShotsRemaining = 0
    /\ gs.multiplier = 1
    /\ Len(gs.history) > 0
    /\ gs.history[Len(gs.history)].multiplierShotsRemaining = 1
    /\ gs.history[Len(gs.history)].multiplier > 1

\* C40: no point-mode bonus carries over a mode switch: in every reachable
\* state in multiplier mode multiplierShotsRemaining and freebiesRemaining
\* are 0, so that EnterPointMode leaves exactly 5 multiplier shots when the
\* multiplier is above 1 and 0 when it is 1.
C40_NoBonusAcrossModes ==
    /\ [](gs.mode = "multiplier"
            => gs.multiplierShotsRemaining = 0 /\ gs.freebiesRemaining = 0)
    /\ [][(lastOp' = "enterPointMode" /\ ~refused')
             => gs'.multiplierShotsRemaining = IF gs.multiplier > 1 THEN 5 ELSE 0]_vars

\* The events the tracking refs k and the requests n hold: queued, or in a
\* request in flight.
HeldRecords(k, n) ==
    {k.pendingEvents[i] : i \in 1..Len(k.pendingEvents)}
      \cup {k.earlyEvents[i] : i \in 1..Len(k.earlyEvents)}
      \cup UNION {{b[i] : i \in 1..Len(b)} : b \in n.batches}
      \cup UNION {{n.ends[j].batch[i] : i \in 1..Len(n.ends[j].batch)} :
                    j \in 1..Len(n.ends)}

\* C35: every MissShot applied to an active game records exactly one event,
\* a miss whose snapshot is the state right after the miss (the miss that
\* takes the last life is recorded with missesRemaining 0), and a miss event
\* is recorded by no other step.
C35_OneMissEventPerMiss ==
    [][/\ (lastOp' = "missShot" /\ gs.gameActive)
            => /\ recorded' = recorded + 1
               /\ \E e \in HeldRecords(tr', net') :
                     /\ e.eid = recorded'
                     /\ e.eventType = "miss"
                     /\ e.missesRemaining = gs'.misses
                     /\ e.score = gs'.score
       /\ \A e \in HeldRecords(tr', net') :
             (e.eid > recorded /\ e.eventType = "miss") => lastOp' = "missShot"]_vars

\* The game on screen has been created and its POST answered.
NextGameKnown ==
    /\ gs.sessionActive /\ gs.gameActive
    /\ tr.gamePromise = "settled" /\ ~net.creating
    /\ Len(db.games) > 0

\* C36: the end-of-game tracking of one game never clears or replaces the
\* game id of the next game: once the next game's POST is answered the hook
\* holds that game's id, every event recorded for an action of that game
\* carries that id, and none is left in the early-event queue.
C36_EndKeepsNextGameId ==
    /\ [](NextGameKnown => tr.gameId = Len(db.games))
    /\ [][(NextGameKnown /\ NextGameKnown' /\ recorded' > recorded)
            => /\ \A i \in 1..Len(tr'.earlyEvents) :
                     tr'.earlyEvents[i].eid <= recorded
               /\ \A e \in HeldRecords(tr', net') :
                     e.eid > recorded => e.gameId = Len(db.games)]_vars

\* C31: the pending queue of the tracking hook is always ordered by
\* increasing sequenceNumber, whatever batches failed and were put back and
\* in whatever order their fetches settled.
C31_PendingInSequenceOrder ==
    \A i, j \in 1..Len(tr.pendingEvents) :
        i < j => tr.pendingEvents[i].sequenceNumber
                    < tr.pendingEvents[j].sequenceNumber

\* The end-of-game update of game g has reached the server: the row holds
\* the endReason of an endGameTracking call.
EndUpdateStored(g) == db.games[g].endReason # NoText

\* What a page load of game g's session would hydrate the hook with.
HydratedOnReload(g) ==
    hydrateFromServer(InitialGameState,
        serverStateToGameState(sessionGetBody(db, db.games[g].sessionId, now)))

\* C37: once the end-of-game update of a game has reached the server, a
\* fetch of its session does not report that game as the active game, and a
\* page load does not hydrate it as a game in progress.
C37_EndedGameNotHydratedActive ==
    \A g \in GameIds(db) :
        EndUpdateStored(g)
          => LET body == sessionGetBody(db, db.games[g].sessionId, now)
                 serverData == serverStateToGameState(body)
             IN \/ body.isEnded
                \/ serverData.currentGame # g
                \/ /\ ~serverData.gameIsActive
                   /\ ~HydratedOnReload(g).gameActive

(* ------------------------------------- pause, resume and the page reload *)

\* One session followed through pause, resume and a page reload, the wall
\* clock read every half second. Here app holds the refs of the pause-sync
\* effect and trail the pauses as they happened: sum is the length of the
\* pauses that are over, began the instant the pause in progress began. The
\* PUT of syncSessionPause is answered within the step that sends it.

\* One reading of the wall clock to the next, in milliseconds.
ClockStepMs == 500

\* Readings of the wall clock after the first one.
MaxClockSteps == 4

\* calculateTimeRemaining(session) with Date.now() = t.
calculateTimeRemaining(session, t) ==
    IF session.endedAt # NULL THEN 0
    ELSE Max(0, (session.durationSeconds * 1000 - ElapsedMs(session, t)) \div 1000)

\* pauseStartTimeRef, totalPausedMsRef and prevPausedRef at mount.
InitialPauseRefs ==
    [ pauseStartTime |-> NULL, totalPausedMs |-> 0, prevPaused |-> FALSE ]

\* syncSessionPause(isPaused, pausedAt, totalPausedMs) with the refs k of
\* the tracking hook, on the tables d.
syncSessionPause(k, d, isPaused, pausedAt, totalPausedMs) ==
    IF k.sessionId = NULL THEN d
    ELSE sessionPutPause(d, k.sessionId, isPaused, pausedAt, totalPausedMs)

\* The pause-sync effect of GameSession for the hook state s at time t: the
\* refs it leaves and the tables after its request.
pauseEffect(a, k, d, s, t) ==
    IF ~s.sessionActive
    THEN [ app |-> [ pauseStartTime |-> NULL, totalPausedMs |-> 0,
                     prevPaused |-> s.paused ],
           db  |-> d ]
    ELSE LET wasPaused == a.prevPaused
             b == [a EXCEPT !.prevPaused = s.paused]
         IN IF s.paused /\ ~wasPaused
            THEN [ app |-> [b EXCEPT !.pauseStartTime = t],
                   db  |-> syncSessionPause(k, d, TRUE, t, b.totalPausedMs) ]
            ELSE IF ~s.paused /\ wasPaused /\ a.pauseStartTime # NULL
            THEN LET total == a.totalPausedMs + (t - a.pauseStartTime)
                 IN [ app |-> [b EXCEPT !.totalPausedMs = total,
                                        !.pauseStartTime = NULL],
                      db  |-> syncSessionPause(k, d, FALSE, NULL, total) ]
            ELSE [ app |-> b, db |-> d ]

NoPauses == [ sum |-> 0, began |-> NULL ]

InitPause ==
    /\ gs = InitialGameState
    /\ lastOp = "mount"
    /\ refused = FALSE
    /\ db = EmptyDb
    /\ now = 0
    /\ requests = 0
    /\ app = InitialPauseRefs
    /\ tr = InitialTracking
    /\ net = InitialNet
    /\ recorded = 0
    /\ calls = NoCalls
    /\ stint = NoStint
    /\ trail = NoPauses

\* The start button: the session effect calls createSession, the pause-sync
\* effect sees a running session.
PStartSession ==
    /\ ~gs.sessionActive
    /\ Len(db.sessions) = 0
    /\ ~net.sessionPost
    /\ LET t == startSession(gs)
           e == pauseEffect(app, tr, db, t, now)
       IN /\ gs' = t
          /\ app' = e.app
          /\ db' = e.db
    /\ net' = [net EXCEPT !.sessionPost = TRUE]
    /\ lastOp' = "startSession"
    /\ refused' = FALSE
    /\ UNCHANGED <<now, requests, tr, recorded, calls, stint, trail>>

\* createSession from the response of POST /api/session, then createGame,
\* which waited for it.
PSessionCreated ==
    /\ net.sessionPost
    /\ LET id == Len(db.sessions) + 1
           posted == sessionPost(db, DurationSeconds, now)
       IN /\ tr' = [tr EXCEPT !.sessionId = id]
          /\ db' = IF gs.gameActive /\ Len(db.games) < MaxGames
                   THEN gamePost(posted, id, now) ELSE posted
    /\ net' = [net EXCEPT !.sessionPost = FALSE]
    /\ lastOp' = "response"
    /\ UNCHANGED <<gs, refused, now, requests, app, recorded, calls, stint, trail>>

\* The pause button, then the pause-sync effect.
PTogglePause ==
    /\ gs.sessionActive
    /\ LET t == togglePause(gs)
           e == pauseEffect(app, tr, db, t, now)
       IN /\ gs' = t
          /\ app' = e.app
          /\ db' = e.db
          /\ trail' = IF t.paused
                      THEN [trail EXCEPT !.began = now]
                      ELSE [ sum |-> trail.sum + (now - trail.began),
                             began |-> NULL ]
    /\ lastOp' = "togglePause"
    /\ refused' = FALSE
    /\ UNCHANGED <<now, requests, tr, net, recorded, calls, stint>>

\* The wall clock goes on by one reading.
PClock ==
    /\ now < MaxClockSteps * ClockStepMs
    /\ now' = now + ClockStepMs
    /\ UNCHANGED <<gs, lastOp, refused, db, requests, app, tr, net, recorded,
                   calls, stint, trail>>

\* The page is loaded again from the URL of the session the tracking hook
\* holds: GET /api/session, the hydration of a freshly mounted hook,
\* setSessionId, then the effects of the next render: the session effect takes
\* the session for a new one and calls createSession, the pause-sync effect
\* runs on refs that are those of the mount.
PReload ==
    /\ gs.sessionActive
    /\ tr.sessionId # NULL
    /\ ~net.sessionPost
    /\ requests < MaxRequests
    /\ Len(db.sessions) < MaxSessions
    /\ LET serverState == sessionGetBody(db, tr.sessionId, now)
           fetched == sessionGet(db, tr.sessionId, now)
           t == hydrateFromServer(InitialGameState,
                                  serverStateToGameState(serverState))
           e == pauseEffect(InitialPauseRefs, tr, fetched, t, now)
       IN /\ ~serverState.isEnded
          /\ gs' = t
          /\ app' = e.app
          /\ db' = e.db
    /\ net' = [net EXCEPT !.sessionPost = TRUE]
    /\ requests' = requests + 1
    /\ lastOp' = "hydrateFromServer"
    /\ refused' = FALSE
    /\ UNCHANGED <<now, tr, recorded, calls, stint, trail>>

\* GET /api/session?id= from another page (the history), which ends a session
\* found expired.
PSessionGet ==
    \E id \in SessionIds(db) :
        /\ sessionGet(db, id, now) # db
        /\ db' = sessionGet(db, id, now)
        /\ lastOp' = "sessionGet"
        /\ UNCHANGED <<gs, refused, now, requests, app, tr, net, recorded,
                       calls, stint, trail>>

NextPause ==
    \/ PStartSession
    \/ PSessionCreated
    \/ PTogglePause
    \/ PClock
    \/ PReload
    \/ PSessionGet

SpecPause == InitPause /\ [][NextPause]_vars

\* The remaining time of the stored rows: never negative, 0 once endedAt is
\* set, the value the session fetch answers with.
RemainingInRange ==
    \A i \in SessionIds(db) :
        LET s == db.sessions[i]
        IN /\ calculateTimeRemaining(s, now) >= 0
           /\ s.endedAt # NULL => calculateTimeRemaining(s, now) = 0
           /\ s.endedAt = NULL /\ ~TimerExpired(s, now)
                => sessionGetBody(db, i, now).timeRemaining
                      = calculateTimeRemaining(s, now)

\* The client computation, the session fetch and the reconciliation find the
\* same sessions expired: those with elapsed >= durationSeconds * 1000.
ExpiryAgreed ==
    \A i \in SessionIds(db) :
        LET s == db.sessions[i]
        IN s.endedAt = NULL
             => /\ (calculateTimeRemaining(s, now) = 0) <=> TimerExpired(s, now)
                /\ (sessionGet(db, i, now).sessions[i].endedAt # NULL)
                      <=> TimerExpired(s, now)
                /\ (recalculate(db, i, now).sessions[i].endedAt # NULL)
                      <=> TimerExpired(s, now)

\* C32: the remaining time computed from a session row is never negative,
\* does not grow with the clock while the session runs, does not change with
\* the clock while it is paused, and is 0 once endedAt is set; the client
\* computation, the session fetch and the reconciliation agree on when a
\* session is expired.
C32_RemainingTime ==
    /\ [](RemainingInRange /\ ExpiryAgreed)
    /\ [][\A i \in SessionIds(db) :
            (i \in SessionIds(db') /\ db'.sessions[i] = db.sessions[i])
              => LET s == db.sessions[i]
                 IN IF s.isPaused
                    THEN calculateTimeRemaining(s, now')
                            = calculateTimeRemaining(s, now)
                    ELSE calculateTimeRemaining(s, now')
                            <= calculateTimeRemaining(s, now)]_vars

\* The row of the session the page is on.
TrackedSession == db.sessions[tr.sessionId]

\* C33: across pause, resume and page reload the totalPausedMs stored for
\* the session is the sum of the pauses that are over and never decreases,
\* and while paused the stored pausedAt is the instant the pause in progress
\* began.
C33_PausedTimeStored ==
    /\ []((gs.sessionActive /\ tr.sessionId = 1)
            => /\ TrackedSession.totalPausedMs = trail.sum
               /\ gs.paused => /\ TrackedSession.isPaused
                               /\ TrackedSession.pausedAt = trail.began)
    /\ [][\A i \in SessionIds(db) :
            db'.sessions[i].totalPausedMs >= db.sessions[i].totalPausedMs]_vars

====
